---- MODULE Spec2Model ----
(***************************************************************************)
(* Deployment lifecycle of goth-deploy.                                    *)
(*                                                                         *)
(* Two orchestrators live in the repository:                               *)
(*  - the database-backed DeploymentService (DeployProject,                *)
(*    performDeployment, startApplication, StopProject, RestartProject)    *)
(*    with the status-driven ProxyService.ServeHTTP; checked under Spec;   *)
(*  - the route-table DeploymentService (Deploy, startService,             *)
(*    StopService, findAvailablePort) with ProxyService.AddRoute /         *)
(*    RemoveRoute and the TemplHandler callers; checked under SpecRT.      *)
(***************************************************************************)
EXTENDS Integers, Sequences, FiniteSets, TLC

\* ------------------------------------------------------------------------
\* Bounds of the explored instance
\* ------------------------------------------------------------------------
NumProjects == 1
MaxDeploys == 2
MaxProcs == 2
MaxOps == 2
\* of the route-table orchestrator
NumPorts == 2
MaxRTOps == 2
MaxRTProcs == 2

ProjectIDs == 1..NumProjects
\* ids a caller may pass: the last one never names a row
CallerIDs == 1..(NumProjects + 1)
OpIDs == 1..MaxOps

\* ------------------------------------------------------------------------
\* Program constants
\* ------------------------------------------------------------------------
StatusPending == "pending"
StatusBuilding == "building"
StatusSuccess == "success"
StatusFailed == "failed"

ProjectStatusActive == "active"
ProjectStatusInactive == "inactive"
ProjectStatusBuilding == "building"
ProjectStatusFailed == "failed"

\* generateUniquePort hands out ports from 8081 upwards, one per project row
FirstProjectPort == 8081
ProjectPort(p) == FirstProjectPort + (p - 1)

ProjectStatusIdle == "idle"

\* findAvailablePort scans from 3000 upwards
FirstPort == 3000
Ports == FirstPort..(FirstPort + NumPorts - 1)

\* subdomains of the projects the TemplHandler works on
Subdomains == {"blog", "app"}
RTOpIDs == 1..MaxRTOps

\* every application is started as "./app": the labels that occur in that
\* command line are the ones `pkill -f <subdomain>` matches it with
AppCmdlineLabels == {"a", "p", "ap", "pp", "app"}

VARIABLES
    projects,     \* ids of the rows of table projects
    status,       \* projects.status
    last_deploy,  \* projects.last_deploy, as the number of times it was written
    workspace,    \* whether DeploymentRoot/<subdomain> exists on disk
    deployments,  \* rows of table deployments, in id order
    pipe,         \* the performDeployment goroutine of each deployment
    processes,    \* DeploymentService.processes: subdomain -> cmd (0: no entry)
    procs,        \* every OS process started by startApplication, with its monitor
    mutex,        \* DeploymentService.mutex: who holds the write lock
    ops,          \* StopProject, DeleteProject and ServeHTTP calls in progress or
                  \* finished, and every call that was refused for want of a project row
    nops,         \* number of calls issued so far, DeployProject included
    proxies,      \* ProxyService.proxies: subdomain -> port of the cached handler (0: none)
    \* --- the route-table orchestrator ---
    rt_status,      \* projects.status of the rows the TemplHandler works on
    routes,         \* ProxyService.routes: subdomain -> target port (0: no route)
    portTracker,    \* DeploymentService.portTracker (0: no entry)
    processTracker, \* DeploymentService.processTracker (0: no entry)
    rt_procs,       \* every OS process started by startService
    rt_ops,         \* handler calls in progress or finished
    rt_nops,        \* number of handler calls issued so far
    lastStop,       \* subdomains whose latest call to begin was a finished StopProject
    disk,           \* DeployPath/<subdomain>: no directory, a directory, a built ./app
    boot,           \* the RestartActiveDeployments call of the server's startup
    \* --- project creation ---
    project_rows,   \* rows of table projects as CreateProjectHandler sees them
    creates,        \* CreateProjectHandler calls in progress or finished
    \* --- process isolation ---
    isoConfig,      \* the build platform, ISOLATION_ENABLE_CHROOT, the deployer's environment
    iso_host,       \* users, chroot trees and cgroup directories on the host
    iso_calls,      \* what each finished call returned and printed
    \* --- secrets ---
    sec_rows,       \* rows of table secrets, in id order
    sec_key,        \* SecretsService.encryptionKey
    sec_ret,        \* what the latest SecretsService call returned
    \* --- functions of a string ---
    applied         \* the latest application of a function: name, argument, result

dbVars == <<projects, status, last_deploy, workspace, deployments, pipe,
            processes, procs, mutex, ops, nops, proxies>>

rtVars == <<rt_status, routes, portTracker, processTracker, rt_procs, rt_ops,
            rt_nops, lastStop, disk, boot>>

crVars == <<project_rows, creates>>

isoVars == <<isoConfig, iso_host, iso_calls>>

secVars == <<sec_rows, sec_key, sec_ret>>

pureVars == <<applied>>

auxVars == <<crVars, isoVars, secVars, pureVars>>

vars == <<dbVars, rtVars, auxVars>>

Free == <<"free", 0>>
PipeThread(d) == <<"pipe", d>>
OpThread(o) == <<"op", o>>

\* the record of a call that returned at once with an error
Refused(kind, id, answer) ==
    [ops EXCEPT ![nops + 1] =
        [kind |-> kind, id |-> id, pc |-> "done", st |-> "", phase |-> 0,
         err |-> TRUE, res |-> answer, port |-> 0, proc |-> 0, killed |-> 0,
         started |-> {}]]

NoOp == [kind |-> "none", id |-> 0, pc |-> "idle", st |-> "", phase |-> 0,
         err |-> FALSE, res |-> "", port |-> 0, proc |-> 0, killed |-> 0,
         started |-> {}]

\* build log of a deployment that went through every step
SuccessLog ==
    <<"header", "stopped", "dir created", "cloned", "dir verified", "checkout",
      "env", "built", "starting", "started", "DEPLOYMENT SUCCESSFUL">>

\* The service either starts on fresh project rows, or project 1 has been
\* deployed once already and its application is running.
InitDB ==
    /\ projects = ProjectIDs
    /\ mutex = Free
    /\ ops = [o \in OpIDs |-> NoOp]
    /\ nops = 0
    /\ proxies = [p \in ProjectIDs |-> 0]
    /\ \E deployed \in BOOLEAN :
        /\ status = [p \in ProjectIDs |->
                        IF deployed /\ p = 1 THEN ProjectStatusActive
                                             ELSE ProjectStatusInactive]
        /\ last_deploy = [p \in ProjectIDs |-> IF deployed /\ p = 1 THEN 1 ELSE 0]
        /\ workspace = [p \in ProjectIDs |-> deployed /\ p = 1]
        /\ processes = [p \in ProjectIDs |-> IF deployed /\ p = 1 THEN 1 ELSE 0]
        /\ deployments =
             IF deployed
             THEN <<[project_id |-> 1, commit |-> FALSE, status |-> StatusSuccess,
                     build_log |-> SuccessLog, error_msg |-> "", finished |-> TRUE,
                     present |-> TRUE]>>
             ELSE <<>>
        /\ pipe = IF deployed
                  THEN <<[pc |-> "done", project |-> 1, log |-> SuccessLog,
                          err |-> "", proc |-> 1]>>
                  ELSE <<>>
        /\ procs = IF deployed
                   THEN <<[project |-> 1, port |-> ProjectPort(1), alive |-> TRUE,
                           exit |-> "", waited |-> FALSE, mon |-> "wait"]>>
                   ELSE <<>>

\* ------------------------------------------------------------------------
\* Database helpers
\* ------------------------------------------------------------------------
\* UPDATE projects SET status = ? WHERE id = ?  (no row: nothing changes)
updateProjectStatus(st, id, s) ==
    IF id \in projects THEN [st EXCEPT ![id] = s] ELSE st

\* UPDATE deployments SET status, build_log, error_msg, finished_at WHERE id = ?
\* an UPDATE that names the project instead of the deployment: it rewrites
\* every row of the project
updateDeploymentStatus_project(deps, d, s, log, msg) ==
    [x \in 1..Len(deps) |->
        IF deps[x].present /\ deps[x].project_id = deps[d].project_id
        THEN [deps[x] EXCEPT !.status = s, !.build_log = log,
                             !.error_msg = msg, !.finished = TRUE]
        ELSE deps[x]]

updateDeploymentStatus(deps, d, s, log, msg) ==
    IF deps[d].present
    THEN [deps EXCEPT ![d].status = s, ![d].build_log = log,
                      ![d].error_msg = msg, ![d].finished = TRUE]
    ELSE deps

\* ------------------------------------------------------------------------
\* Processes
\* ------------------------------------------------------------------------
\* cmd.Process.Kill(): ends a live process; fails harmlessly on a finished one
Kill(ps, q) ==
    IF ps[q].alive
    THEN [ps EXCEPT ![q].alive = FALSE, ![q].exit = "killed"]
    ELSE ps

\* stopProjectProcess, under d.mutex: the new procs and processes
stopProjectProcess_procs(id) ==
    IF processes[id] # 0 THEN Kill(procs, processes[id]) ELSE procs

stopProjectProcess_processes(id) == [processes EXCEPT ![id] = 0]

\* IsProjectRunning, under d.mutex.RLock
IsProjectRunning(id) ==
    /\ processes[id] # 0
    /\ ~procs[processes[id]].waited

LiveProcs(id) == {q \in 1..Len(procs) : procs[q].project = id /\ procs[q].alive}

NewProc(id) ==
    [project |-> id, port |-> ProjectPort(id), alive |-> TRUE, exit |-> "",
     waited |-> FALSE, mon |-> "wait"]

\* ------------------------------------------------------------------------
\* startApplication (both callers hold it the same way): the lock is taken
\* on entry and kept over the two-second sleep until the liveness check
\* ------------------------------------------------------------------------
StartOutcomes == {"ok", "failed"}

\* entry up to the sleep, for outcome "ok"; a log file that cannot be created
\* or a cmd.Start error ("failed") returns at once, after os.MkdirAll(logDir)
startApplication_begin(thread, id, outcome) ==
    /\ mutex = Free
    /\ IF outcome = "ok"
       THEN /\ Len(procs) < MaxProcs
            /\ procs' = Append(procs, NewProc(id))
            /\ processes' = [processes EXCEPT ![id] = Len(procs) + 1]
            /\ mutex' = thread
            /\ workspace' = [workspace EXCEPT ![id] = TRUE]
       ELSE /\ UNCHANGED <<procs, processes, mutex>>
            /\ workspace' = [workspace EXCEPT ![id] = TRUE]

\* after the sleep: cmd.Process == nil || cmd.ProcessState != nil
startApplication_failed(q) == procs[q].waited

\* ------------------------------------------------------------------------
\* DeployProject
\* ------------------------------------------------------------------------
\* an INSERT that records the row as building already
NewDeployment_building(id, commit) ==
    [project_id |-> id, commit |-> commit, status |-> StatusBuilding,
     build_log |-> <<>>, error_msg |-> "", finished |-> FALSE, present |-> TRUE]

NewDeployment(id, commit) ==
    [project_id |-> id, commit |-> commit, status |-> StatusPending,
     build_log |-> <<>>, error_msg |-> "", finished |-> FALSE, present |-> TRUE]

NewPipe(id) == [pc |-> "new", project |-> id, log |-> <<>>, err |-> "", proc |-> 0]

\* SELECT the project (no row: return the error), INSERT the deployment row
DeployProject_insert(id, commit) ==
    /\ IF id \notin projects
       THEN /\ nops < MaxOps
            /\ nops' = nops + 1
            /\ ops' = Refused("deploy", id, "failed to get project")
            /\ UNCHANGED <<deployments, pipe>>
       ELSE /\ nops < MaxOps
            /\ nops' = nops + 1
            /\ Len(deployments) < MaxDeploys
            /\ deployments' = Append(deployments, NewDeployment(id, commit))
            /\ pipe' = Append(pipe, NewPipe(id))
            /\ UNCHANGED ops
    /\ UNCHANGED <<rtVars, auxVars, projects, status, last_deploy, workspace, processes, procs,
                   mutex, proxies>>

\* UPDATE projects SET status = 'building'; go performDeployment; return
DeployProject_launch(d) ==
    /\ d \in 1..Len(pipe) /\ pipe[d].pc = "new"
    /\ status' = updateProjectStatus(status, pipe[d].project, ProjectStatusBuilding)
    /\ pipe' = [pipe EXCEPT ![d].pc = "stop"]
    /\ UNCHANGED <<rtVars, auxVars, projects, last_deploy, workspace, deployments, processes,
                   procs, mutex, ops, nops, proxies>>

\* ------------------------------------------------------------------------
\* performDeployment, one action per step that touches shared state
\* ------------------------------------------------------------------------
PipeAt(d, pc) == d \in 1..Len(pipe) /\ pipe[d].pc = pc

\* the deferred function runs next, with err set
PipeFail(d, entries, msg) ==
    [pipe EXCEPT ![d].pc = "finish", ![d].log = pipe[d].log \o entries,
                 ![d].err = msg]

PipeStep(d, pc, entries) ==
    [pipe EXCEPT ![d].pc = pc, ![d].log = pipe[d].log \o entries]

\* build-log header, updateDeploymentStatus(building), then
\* d.stopProjectProcess(project.Subdomain)
performDeployment_stop(d) ==
    /\ PipeAt(d, "stop")
    /\ mutex = Free
    /\ deployments' = updateDeploymentStatus(deployments, d, StatusBuilding, <<>>, "")
    /\ procs' = stopProjectProcess_procs(pipe[d].project)
    /\ processes' = stopProjectProcess_processes(pipe[d].project)
    /\ pipe' = PipeStep(d, "fetch", <<"header", "stopped">>)
    /\ UNCHANGED <<rtVars, auxVars, projects, status, last_deploy, workspace, mutex, ops, nops, proxies>>

\* os.RemoveAll(deployDir); os.MkdirAll(deployDir); git clone ... deployDir
FetchOutcomes == {"ok", "mkdir failed", "clone failed"}

performDeployment_fetch(d, outcome) ==
    /\ PipeAt(d, "fetch")
    /\ workspace' = [workspace EXCEPT ![pipe[d].project] = (outcome # "mkdir failed")]
    /\ pipe' = CASE outcome = "ok" -> PipeStep(d, "build", <<"dir created", "cloned">>)
                 [] outcome = "mkdir failed" ->
                      PipeFail(d, <<"mkdir failed">>, "mkdir failed")
                 [] OTHER ->
                      PipeFail(d, <<"dir created", "clone failed">>, "git clone failed")
    /\ UNCHANGED <<rtVars, auxVars, projects, status, last_deploy, deployments, processes, procs,
                   mutex, ops, nops, proxies>>

\* os.Stat(deployDir); git checkout (when a commit was asked for); the
\* environment variables; the build command
BuildOutcomes(d) ==
    {"ok", "build failed"} \cup
    (IF deployments[d].commit THEN {"checkout failed"} ELSE {})

performDeployment_build(d, outcome) ==
    /\ PipeAt(d, "build")
    /\ outcome \in BuildOutcomes(d)
    /\ pipe' = CASE ~workspace[pipe[d].project] ->
                      PipeFail(d, <<"dir missing">>,
                               "deployment directory does not exist")
                 [] outcome = "ok" ->
                      PipeStep(d, "start", <<"dir verified", "checkout", "env", "built">>)
                 [] outcome = "checkout failed" ->
                      PipeFail(d, <<"dir verified", "checkout failed">>,
                               "git checkout failed")
                 [] OTHER ->
                      PipeFail(d, <<"dir verified", "checkout", "env", "build failed">>,
                               "build failed")
    /\ UNCHANGED <<rtVars, auxVars, projects, status, last_deploy, workspace, deployments,
                   processes, procs, mutex, ops, nops, proxies>>

\* d.startApplication(project, deployDir, envVars), up to the sleep
performDeployment_start(d, outcome) ==
    /\ PipeAt(d, "start")
    /\ startApplication_begin(PipeThread(d), pipe[d].project, outcome)
    /\ pipe' = IF outcome = "ok"
               THEN [PipeStep(d, "sleep", <<"starting">>) EXCEPT ![d].proc = Len(procs) + 1]
               ELSE PipeFail(d, <<"starting", "start failed">>,
                             "failed to start application")
    /\ UNCHANGED <<rtVars, auxVars, projects, status, last_deploy, deployments, ops, nops, proxies>>

\* the liveness check after the sleep, return of startApplication
performDeployment_started(d) ==
    /\ PipeAt(d, "sleep")
    /\ mutex = PipeThread(d)
    /\ mutex' = Free
    /\ pipe' = IF startApplication_failed(pipe[d].proc)
               THEN PipeFail(d, <<"start failed">>, "failed to start application")
               ELSE PipeStep(d, "finish", <<"started">>)
    /\ UNCHANGED <<rtVars, auxVars, projects, status, last_deploy, workspace, deployments,
                   processes, procs, ops, nops, proxies>>

\* the deferred function: updateDeploymentStatus with the log and the error,
\* updateProjectStatus and, on success, last_deploy
performDeployment_finish(d) ==
    /\ PipeAt(d, "finish")
    /\ LET failed == pipe[d].err # ""
           id == pipe[d].project
           log == pipe[d].log \o <<IF failed THEN "DEPLOYMENT FAILED"
                                             ELSE "DEPLOYMENT SUCCESSFUL">>
       IN /\ deployments' = updateDeploymentStatus(deployments, d,
                                IF failed THEN StatusFailed ELSE StatusSuccess,
                                log, pipe[d].err)
          /\ status' = updateProjectStatus(status, id,
                            IF failed THEN ProjectStatusFailed ELSE ProjectStatusActive)
          /\ last_deploy' = IF ~failed /\ id \in projects
                            THEN [last_deploy EXCEPT ![id] = @ + 1]
                            ELSE last_deploy
          /\ pipe' = [pipe EXCEPT ![d].pc = "done", ![d].log = log]
    /\ UNCHANGED <<rtVars, auxVars, projects, workspace, processes, procs, mutex, ops, nops, proxies>>

\* ------------------------------------------------------------------------
\* The process itself, and the monitor goroutine of startApplication
\* ------------------------------------------------------------------------
ProcAt(q, m) == q \in 1..Len(procs) /\ procs[q].mon = m

\* the application ends on its own: exit status 0 ("clean") or not ("crash")
ProcessExit(q, how) ==
    /\ q \in 1..Len(procs)
    /\ procs[q].alive
    /\ procs' = [procs EXCEPT ![q].alive = FALSE, ![q].exit = how]
    /\ UNCHANGED <<rtVars, auxVars, projects, status, last_deploy, workspace, deployments, pipe,
                   processes, mutex, ops, nops, proxies>>

\* err := cmd.Wait() returns and sets cmd.ProcessState
monitor_wait(q) ==
    /\ ProcAt(q, "wait")
    /\ ~procs[q].alive
    /\ procs' = [procs EXCEPT ![q].waited = TRUE, ![q].mon = "lock"]
    /\ UNCHANGED <<rtVars, auxVars, projects, status, last_deploy, workspace, deployments, pipe,
                   processes, mutex, ops, nops, proxies>>

\* d.mutex.Lock(); delete(d.processes, project.Subdomain); d.mutex.Unlock()
monitor_delete(q) ==
    /\ ProcAt(q, "lock")
    /\ mutex = Free
    /\ processes' = [processes EXCEPT ![procs[q].project] = 0]
    /\ procs' = [procs EXCEPT ![q].mon = "notify"]
    /\ UNCHANGED <<rtVars, auxVars, projects, status, last_deploy, workspace, deployments, pipe,
                   mutex, ops, nops, proxies>>

\* updateProjectStatus: failed when Wait returned an error, inactive otherwise
monitor_notify(q) ==
    /\ ProcAt(q, "notify")
    /\ status' = updateProjectStatus(status, procs[q].project,
                    IF procs[q].exit = "clean" THEN ProjectStatusInactive
                                               ELSE ProjectStatusFailed)
    /\ procs' = [procs EXCEPT ![q].mon = "done"]
    /\ UNCHANGED <<rtVars, auxVars, projects, last_deploy, workspace, deployments, pipe,
                   processes, mutex, ops, nops, proxies>>

\* ------------------------------------------------------------------------
\* StopProject
\* ------------------------------------------------------------------------
\* SELECT subdomain; d.stopProjectProcess(subdomain)
StopProject_stop(id) ==
    /\ nops < MaxOps
    /\ nops' = nops + 1
    /\ IF id \notin projects
       THEN /\ ops' = Refused("stop", id, "failed to get project")
            /\ UNCHANGED <<procs, processes>>
       ELSE /\ mutex = Free
            /\ procs' = stopProjectProcess_procs(id)
            /\ processes' = stopProjectProcess_processes(id)
            /\ ops' = [ops EXCEPT ![nops + 1] =
                        [NoOp EXCEPT !.kind = "stop", !.id = id, !.pc = "status",
                                     !.st = status[id],
                                     !.killed = IF processes[id] # 0
                                                   /\ procs[processes[id]].alive
                                                THEN processes[id] ELSE 0]]
    /\ UNCHANGED <<rtVars, auxVars, projects, status, last_deploy, workspace, deployments, pipe,
                   mutex, proxies>>

\* d.updateProjectStatus(projectID, inactive); return nil
StopProject_status(o) ==
    /\ ops[o].kind = "stop" /\ ops[o].pc = "status"
    /\ status' = updateProjectStatus(status, ops[o].id, ProjectStatusInactive)
    /\ ops' = [ops EXCEPT ![o].pc = "done", ![o].res = "ok"]
    /\ UNCHANGED <<rtVars, auxVars, projects, last_deploy, workspace, deployments, pipe,
                   processes, procs, mutex, nops, proxies>>

\* ------------------------------------------------------------------------
\* DeleteProject
\* ------------------------------------------------------------------------
\* SELECT subdomain; d.stopProjectProcess(subdomain)
DeleteProject_stop(id) ==
    /\ nops < MaxOps
    /\ nops' = nops + 1
    /\ IF id \notin projects
       THEN /\ ops' = Refused("delete", id, "failed to get project details")
            /\ UNCHANGED <<procs, processes>>
       ELSE /\ mutex = Free
            /\ procs' = stopProjectProcess_procs(id)
            /\ processes' = stopProjectProcess_processes(id)
            /\ ops' = [ops EXCEPT ![nops + 1] =
                        [NoOp EXCEPT !.kind = "delete", !.id = id, !.pc = "remove"]]
    /\ UNCHANGED <<rtVars, auxVars, projects, status, last_deploy, workspace, deployments, pipe,
                   mutex, proxies>>

\* os.RemoveAll(deployDir); DELETE FROM projects WHERE id = ?
\* (the connection never enables foreign keys, so no row of deployments goes)
\* ON DELETE CASCADE of deployments.project_id: SQLite applies it only on a
\* connection that has foreign keys switched on, which depends on the
\* DATABASE_URL the server is given
Cascade(deps, id) ==
    [d \in 1..Len(deps) |-> IF deps[d].project_id = id
                            THEN [deps[d] EXCEPT !.present = FALSE]
                            ELSE deps[d]]

DeleteProject_remove(o, foreign_keys) ==
    /\ ops[o].kind = "delete" /\ ops[o].pc = "remove"
    /\ workspace' = [workspace EXCEPT ![ops[o].id] = FALSE]
    /\ projects' = projects \ {ops[o].id}
    /\ deployments' = IF foreign_keys THEN Cascade(deployments, ops[o].id)
                                      ELSE deployments
    /\ ops' = [ops EXCEPT ![o].pc = "done", ![o].res = "ok"]
    /\ UNCHANGED <<rtVars, auxVars, status, last_deploy, pipe, processes, procs,
                   mutex, nops, proxies>>

\* ------------------------------------------------------------------------
\* Host names, as sequences of characters
\* ------------------------------------------------------------------------
\* config.Load: BASE_DOMAIN defaults to "localhost:8080"
BaseDomain ==
    <<"l", "o", "c", "a", "l", "h", "o", "s", "t", ":", "8", "0", "8", "0">>

Localhost == <<"l", "o", "c", "a", "l", "h", "o", "s", "t">>
Www == <<"w", "w", "w">>

\* strings.Index(s, c): first position of the character, 0 when absent
\* (Go's -1)
Index(s, c) ==
    IF \E i \in 1..Len(s) : s[i] = c
    THEN CHOOSE i \in 1..Len(s) : s[i] = c /\ \A j \in 1..(i - 1) : s[j] # c
    ELSE 0

\* strings.Contains(s, sub)
Contains(s, sub) ==
    \E i \in 1..(Len(s) - Len(sub) + 1) : SubSeq(s, i, i + Len(sub) - 1) = sub

\* strings.Split(s, sep) for a one-character separator
RECURSIVE Split(_, _)
Split(s, sep) ==
    IF Index(s, sep) = 0
    THEN <<s>>
    ELSE <<SubSeq(s, 1, Index(s, sep) - 1)>>
         \o Split(SubSeq(s, Index(s, sep) + 1, Len(s)), sep)

\* a host with as many labels as the base domain has a subdomain too
extractSubdomain_atLeast(baseDomain, host) ==
    LET h == IF Index(host, ":") # 0 THEN SubSeq(host, 1, Index(host, ":") - 1)
                                     ELSE host
        parts == Split(h, ".")
        baseParts == Split(baseDomain, ".")
    IN IF Len(parts) >= 2
          /\ (parts[Len(parts)] = Localhost \/ Contains(h, Localhost))
       THEN parts[1]
       ELSE IF Len(parts) >= Len(baseParts) THEN parts[1] ELSE <<>>

\* ProxyService.extractSubdomain, for a ProxyService with Config.BaseDomain
extractSubdomainIn(baseDomain, host) ==
    LET h == IF Index(host, ":") # 0 THEN SubSeq(host, 1, Index(host, ":") - 1)
                                     ELSE host
        parts == Split(h, ".")
        baseParts == Split(baseDomain, ".")
    IN IF Len(parts) >= 2
          /\ (parts[Len(parts)] = Localhost \/ Contains(h, Localhost))
       THEN parts[1]
       ELSE IF Len(parts) > Len(baseParts) THEN parts[1] ELSE <<>>

\* ProxyService.extractSubdomain of the server, whose base domain is BaseDomain
extractSubdomain(host) == extractSubdomainIn(BaseDomain, host)

\* hosts of the requests explored: the base domain itself, its www name, an
\* empty Host header, and the name of a deployed application
Hosts ==
    { BaseDomain,
      Www \o <<".">> \o BaseDomain,
      <<>>,
      <<"b", "l", "o", "g", ".">> \o BaseDomain }

\* ------------------------------------------------------------------------
\* ProxyService.ServeHTTP, with the RestartProject calls it makes
\* ------------------------------------------------------------------------
ServeAt(o, pc) == ops[o].kind = "serve" /\ ops[o].pc = pc

Respond(o, code) == [ops EXCEPT ![o].pc = "done", ![o].res = code]

\* no subdomain in the host, or the label www or the base domain: 400
ServeHTTP_reject(host) ==
    /\ nops < MaxOps
    /\ \/ extractSubdomain(host) = <<>>
       \/ extractSubdomain(host) = Www
       \/ extractSubdomain(host) = BaseDomain
    /\ nops' = nops + 1
    /\ ops' = Refused("serve", 0, "400")
    /\ UNCHANGED <<rtVars, auxVars, projects, status, last_deploy, workspace, deployments,
                   pipe, processes, procs, mutex, proxies>>

\* getProjectBySubdomain and the status test
ServeHTTP_lookup(id) ==
    /\ nops < MaxOps
    /\ nops' = nops + 1
    /\ IF id \notin projects
       THEN ops' = Refused("serve", id, "404")
       ELSE /\ LET req == [NoOp EXCEPT !.kind = "serve", !.id = id, !.st = status[id]]
               IN ops' = [ops EXCEPT ![nops + 1] =
                    IF status[id] = ProjectStatusActive
                    THEN [req EXCEPT !.pc = "check"]
                    ELSE IF status[id] = ProjectStatusInactive
                    THEN [req EXCEPT !.pc = "r_stop", !.phase = 1]
                    ELSE [req EXCEPT !.pc = "done", !.res = "503"]]
    /\ UNCHANGED <<rtVars, auxVars, projects, status, last_deploy, workspace, deployments, pipe,
                   processes, procs, mutex, proxies>>

\* answer of ServeHTTP when RestartProject returns an error
RestartError(o) == IF ops[o].phase = 1 THEN "503" ELSE "500"

\* RestartProject: SELECT the project; d.stopProjectProcess(project.Subdomain)
RestartProject_stop(o) ==
    /\ ServeAt(o, "r_stop")
    /\ IF ops[o].id \notin projects
       THEN /\ ops' = Respond(o, RestartError(o))
            /\ UNCHANGED <<procs, processes>>
       ELSE /\ mutex = Free
            /\ procs' = stopProjectProcess_procs(ops[o].id)
            /\ processes' = stopProjectProcess_processes(ops[o].id)
            /\ ops' = [ops EXCEPT ![o].pc = "r_start"]
    /\ UNCHANGED <<rtVars, auxVars, projects, status, last_deploy, workspace, deployments, pipe,
                   mutex, nops, proxies>>

\* RestartProject: d.startApplication, up to the sleep
RestartProject_start(o, outcome) ==
    /\ ServeAt(o, "r_start")
    /\ startApplication_begin(OpThread(o), ops[o].id, outcome)
    /\ ops' = IF outcome = "ok"
              THEN [ops EXCEPT ![o].pc = "r_sleep", ![o].proc = Len(procs) + 1,
                               ![o].started = @ \cup {Len(procs) + 1}]
              ELSE [ops EXCEPT ![o].pc = "r_status", ![o].err = TRUE]
    /\ UNCHANGED <<rtVars, auxVars, projects, status, last_deploy, deployments, pipe, nops, proxies>>

\* RestartProject: the liveness check after the sleep
RestartProject_started(o) ==
    /\ ServeAt(o, "r_sleep")
    /\ mutex = OpThread(o)
    /\ mutex' = Free
    /\ ops' = [ops EXCEPT ![o].pc = "r_status",
                          ![o].err = startApplication_failed(ops[o].proc)]
    /\ UNCHANGED <<rtVars, auxVars, projects, status, last_deploy, workspace, deployments, pipe,
                   processes, procs, nops, proxies>>

\* RestartProject: updateProjectStatus and return; ServeHTTP goes on
RestartProject_status(o) ==
    /\ ServeAt(o, "r_status")
    /\ status' = updateProjectStatus(status, ops[o].id,
                    IF ops[o].err THEN ProjectStatusFailed ELSE ProjectStatusActive)
    /\ ops' = IF ops[o].err THEN Respond(o, RestartError(o))
              ELSE [ops EXCEPT ![o].pc = IF ops[o].phase = 1 THEN "check" ELSE "proxy"]
    /\ UNCHANGED <<rtVars, auxVars, projects, last_deploy, workspace, deployments, pipe,
                   processes, procs, mutex, nops, proxies>>

\* if !p.Deployment.IsProjectRunning(subdomain) { RestartProject }
ServeHTTP_check(o) ==
    /\ ServeAt(o, "check")
    /\ mutex = Free
    /\ ops' = IF IsProjectRunning(ops[o].id)
              THEN [ops EXCEPT ![o].pc = "proxy"]
              ELSE [ops EXCEPT ![o].pc = "r_stop", ![o].phase = 2]
    /\ UNCHANGED <<rtVars, auxVars, projects, status, last_deploy, workspace, deployments, pipe,
                   processes, procs, mutex, nops, proxies>>

\* getOrCreateProxy(subdomain, project.Port): the cached handler wins
getOrCreateProxy(id, port) ==
    IF proxies[id] # 0 THEN proxies ELSE [proxies EXCEPT ![id] = port]

\* proxy.ServeHTTP: forward to the handler's port; nobody listening: 502 page
ServeHTTP_proxy(o) ==
    /\ ServeAt(o, "proxy")
    /\ proxies' = getOrCreateProxy(ops[o].id, ProjectPort(ops[o].id))
    /\ LET port == proxies'[ops[o].id]
           up == \E q \in 1..Len(procs) : procs[q].alive /\ procs[q].port = port
       IN ops' = [ops EXCEPT ![o].pc = "done", ![o].port = port,
                             ![o].res = IF up THEN "forwarded" ELSE "502"]
    /\ UNCHANGED <<rtVars, auxVars, projects, status, last_deploy, workspace, deployments, pipe,
                   processes, procs, mutex, nops>>

\* ------------------------------------------------------------------------
\* Specification of the database-backed orchestrator
\* ------------------------------------------------------------------------
Next ==
    \/ \E id \in CallerIDs, commit \in BOOLEAN : DeployProject_insert(id, commit)
    \/ \E d \in 1..MaxDeploys : DeployProject_launch(d)
    \/ \E d \in 1..MaxDeploys : performDeployment_stop(d)
    \/ \E d \in 1..MaxDeploys, outcome \in FetchOutcomes : performDeployment_fetch(d, outcome)
    \/ \E d \in 1..MaxDeploys, outcome \in {"ok", "build failed", "checkout failed"} :
          performDeployment_build(d, outcome)
    \/ \E d \in 1..MaxDeploys, outcome \in StartOutcomes : performDeployment_start(d, outcome)
    \/ \E d \in 1..MaxDeploys : performDeployment_started(d)
    \/ \E d \in 1..MaxDeploys : performDeployment_finish(d)
    \/ \E q \in 1..MaxProcs, how \in {"crash", "clean"} : ProcessExit(q, how)
    \/ \E q \in 1..MaxProcs : monitor_wait(q)
    \/ \E q \in 1..MaxProcs : monitor_delete(q)
    \/ \E q \in 1..MaxProcs : monitor_notify(q)
    \/ \E id \in CallerIDs : StopProject_stop(id)
    \/ \E o \in OpIDs : StopProject_status(o)
    \/ \E id \in CallerIDs : DeleteProject_stop(id)
    \/ \E o \in OpIDs, foreign_keys \in BOOLEAN : DeleteProject_remove(o, foreign_keys)
    \/ \E host \in Hosts : ServeHTTP_reject(host)
    \/ \E id \in CallerIDs : ServeHTTP_lookup(id)
    \/ \E o \in OpIDs : RestartProject_stop(o)
    \/ \E o \in OpIDs, outcome \in StartOutcomes : RestartProject_start(o, outcome)
    \/ \E o \in OpIDs : RestartProject_started(o)
    \/ \E o \in OpIDs : RestartProject_status(o)
    \/ \E o \in OpIDs : ServeHTTP_check(o)
    \/ \E o \in OpIDs : ServeHTTP_proxy(o)

\* ========================================================================
\* The route-table orchestrator: DeploymentService with portTracker and
\* processTracker, ProxyService.routes, and the TemplHandler that calls them
\* ========================================================================
NoRTOp == [kind |-> "none", sub |-> "", pc |-> "idle", err |-> FALSE, port |-> 0,
           proc |-> 0, sproc |-> 0, sport |-> 0]

\* what os.Stat finds under DeployPath/<subdomain>
DiskMissing == "missing"
DiskDir == "dir"
DiskBuilt == "built"

\* RestartActiveDeployments: its position, the rows of its query, the rows
\* still to scan, the row in hand, and its counters
NoBoot == [pc |-> "init", seen |-> {}, todo |-> {}, cur |-> "", op |-> 0,
           restarted |-> 0, failed |-> 0, rebuilt |-> 0, err |-> FALSE]

\* NewDeploymentService, NewProxyService: empty trackers and routes
NewDeploymentService ==
    /\ routes = [s \in Subdomains |-> 0]
    /\ portTracker = [s \in Subdomains |-> 0]
    /\ processTracker = [s \in Subdomains |-> 0]
    /\ rt_procs = <<>>
    /\ rt_ops = [o \in RTOpIDs |-> NoRTOp]
    /\ rt_nops = 0
    /\ lastStop = {}

\* a first start: no project was deployed, the startup pass found no row
InitRT ==
    /\ NewDeploymentService
    /\ rt_status = [s \in Subdomains |-> ProjectStatusIdle]
    /\ disk = [s \in Subdomains |-> DiskMissing]
    /\ boot = [NoBoot EXCEPT !.pc = "done"]

RTAt(o, pc) == rt_ops[o].pc = pc

\* the process that listens on a port, 0 when nobody does
Listener(port) ==
    IF \E q \in 1..Len(rt_procs) :
          rt_procs[q].alive /\ rt_procs[q].listening /\ rt_procs[q].port = port
    THEN CHOOSE q \in 1..Len(rt_procs) :
          rt_procs[q].alive /\ rt_procs[q].listening /\ rt_procs[q].port = port
    ELSE 0

\* findAvailablePort: the first port of the range that net.Listen can bind
\* (0: no available ports found)
findAvailablePort ==
    IF \E port \in Ports : Listener(port) = 0
    THEN CHOOSE port \in Ports :
            /\ Listener(port) = 0
            /\ \A other \in Ports : Listener(other) = 0 => port <= other
    ELSE 0

\* ProxyService.AddRoute / RemoveRoute, under routesMux
AddRoute(s, port) == [routes EXCEPT ![s] = port]
RemoveRoute(s) == [routes EXCEPT ![s] = 0]

\* process.Kill(), kill -9 <pid>: a set of processes ends
KillAll(ps, qs) ==
    [q \in 1..Len(ps) |-> IF q \in qs /\ ps[q].alive
                          THEN [ps[q] EXCEPT !.alive = FALSE, !.listening = FALSE]
                          ELSE ps[q]]

\* killProcessByPort: lsof -ti :port, then kill -9 of the pid that holds it
killProcessByPort(port) == IF Listener(port) # 0 THEN {Listener(port)} ELSE {}

\* pkill -f <subdomain>: every process whose command line contains the label
pkill(s) ==
    IF s \in AppCmdlineLabels
    THEN {q \in 1..Len(rt_procs) : rt_procs[q].alive}
    ELSE {}

\* ------------------------------------------------------------------------
\* TemplHandler.DeployProject and the goroutine it starts
\* ------------------------------------------------------------------------
\* UPDATE projects SET status = building; go func() { Deploy(...) ... }
TemplHandler_DeployProject(s) ==
    /\ rt_nops < MaxRTOps
    /\ rt_nops' = rt_nops + 1
    /\ rt_status' = [rt_status EXCEPT ![s] = ProjectStatusBuilding]
    /\ rt_ops' = [rt_ops EXCEPT ![rt_nops + 1] =
                    [NoRTOp EXCEPT !.kind = "deploy", !.sub = s, !.pc = "build"]]
    /\ lastStop' = lastStop \ {s}
    /\ UNCHANGED <<dbVars, auxVars, disk, boot, routes, portTracker, processTracker, rt_procs>>

\* Deploy: os.MkdirAll, cloneOrPullRepo, buildProject; an error returns
Deploy_build(o, ok) ==
    /\ rt_ops[o].kind = "deploy" /\ RTAt(o, "build")
    /\ rt_ops' = IF ok THEN [rt_ops EXCEPT ![o].pc = "ss_route"]
                       ELSE [rt_ops EXCEPT ![o].pc = "finish", ![o].err = TRUE]
    /\ disk' = [disk EXCEPT ![rt_ops[o].sub] =
                    IF ok THEN DiskBuilt
                    ELSE IF @ = DiskMissing THEN DiskDir ELSE @]
    /\ UNCHANGED <<dbVars, auxVars, boot, rt_status, routes, portTracker, processTracker, rt_procs,
                   rt_nops, lastStop>>

\* ------------------------------------------------------------------------
\* StopService, called by startService and by TemplHandler.StopProject
\* ------------------------------------------------------------------------
\* s.proxyService.RemoveRoute(subdomain)
StopService_route(o) ==
    /\ RTAt(o, "ss_route")
    /\ routes' = RemoveRoute(rt_ops[o].sub)
    /\ rt_ops' = [rt_ops EXCEPT ![o].pc = "ss_proc"]
    /\ UNCHANGED <<dbVars, auxVars, disk, boot, rt_status, portTracker, processTracker, rt_procs, rt_nops, lastStop>>

\* under processMux: read and delete processTracker[subdomain]
StopService_proc(o) ==
    /\ RTAt(o, "ss_proc")
    /\ processTracker' = [processTracker EXCEPT ![rt_ops[o].sub] = 0]
    /\ rt_ops' = [rt_ops EXCEPT ![o].pc = "ss_port",
                                ![o].sproc = processTracker[rt_ops[o].sub]]
    /\ UNCHANGED <<dbVars, auxVars, disk, boot, rt_status, routes, portTracker, rt_procs, rt_nops, lastStop>>

\* under portMux: read and delete portTracker[subdomain]
StopService_port(o) ==
    /\ RTAt(o, "ss_port")
    /\ portTracker' = [portTracker EXCEPT ![rt_ops[o].sub] = 0]
    /\ rt_ops' = [rt_ops EXCEPT ![o].pc = "ss_kill",
                                ![o].sport = portTracker[rt_ops[o].sub]]
    /\ UNCHANGED <<dbVars, auxVars, disk, boot, rt_status, routes, processTracker, rt_procs, rt_nops, lastStop>>

\* process.Kill(); killProcessByPort(port) if the port was known; pkill -f
StopService_kill(o) ==
    /\ RTAt(o, "ss_kill")
    /\ LET byHandle == IF rt_ops[o].sproc # 0 THEN {rt_ops[o].sproc} ELSE {}
           afterKill == KillAll(rt_procs, byHandle)
           byPort == IF rt_ops[o].sport # 0
                        /\ \E q \in 1..Len(afterKill) :
                              afterKill[q].alive /\ afterKill[q].listening
                              /\ afterKill[q].port = rt_ops[o].sport
                     THEN killProcessByPort(rt_ops[o].sport)
                     ELSE {}
       IN rt_procs' = KillAll(rt_procs, byHandle \cup byPort \cup pkill(rt_ops[o].sub))
    /\ rt_ops' = [rt_ops EXCEPT ![o].pc = IF rt_ops[o].kind = "stop"
                                          THEN "status" ELSE "start",
                                ![o].sproc = 0, ![o].sport = 0]
    /\ UNCHANGED <<dbVars, auxVars, disk, boot, rt_status, routes, portTracker, processTracker, rt_nops, lastStop>>

\* ------------------------------------------------------------------------
\* startService after its StopService
\* ------------------------------------------------------------------------
NewRTProc(s, port) == [sub |-> s, port |-> port, alive |-> TRUE, listening |-> FALSE]

\* findAvailablePort; os.Create of the log file; cmd.Start with PORT=<port>
startService_start(o, ok) ==
    /\ rt_ops[o].kind \in {"deploy", "boot"} /\ RTAt(o, "start")
    /\ IF findAvailablePort = 0 \/ ~ok
       THEN /\ rt_ops' = [rt_ops EXCEPT ![o].pc = "finish", ![o].err = TRUE]
            /\ UNCHANGED rt_procs
       ELSE /\ Len(rt_procs) < MaxRTProcs
            /\ rt_procs' = Append(rt_procs, NewRTProc(rt_ops[o].sub, findAvailablePort))
            /\ rt_ops' = [rt_ops EXCEPT ![o].pc = "track_port",
                                        ![o].port = findAvailablePort,
                                        ![o].proc = Len(rt_procs) + 1]
    /\ UNCHANGED <<dbVars, auxVars, disk, boot, rt_status, routes, portTracker, processTracker, rt_nops, lastStop>>

\* s.portTracker[subdomain] = port
startService_trackPort(o) ==
    /\ RTAt(o, "track_port")
    /\ portTracker' = [portTracker EXCEPT ![rt_ops[o].sub] = rt_ops[o].port]
    /\ rt_ops' = [rt_ops EXCEPT ![o].pc = "track_proc"]
    /\ UNCHANGED <<dbVars, auxVars, disk, boot, rt_status, routes, processTracker, rt_procs, rt_nops, lastStop>>

\* s.processTracker[subdomain] = cmd.Process
startService_trackProcess(o) ==
    /\ RTAt(o, "track_proc")
    /\ processTracker' = [processTracker EXCEPT ![rt_ops[o].sub] = rt_ops[o].proc]
    /\ rt_ops' = [rt_ops EXCEPT ![o].pc = "add_route"]
    /\ UNCHANGED <<dbVars, auxVars, disk, boot, rt_status, routes, portTracker, rt_procs, rt_nops, lastStop>>

\* s.proxyService.AddRoute(subdomain, "http://localhost:<port>"); return nil
startService_addRoute(o) ==
    /\ RTAt(o, "add_route")
    /\ routes' = AddRoute(rt_ops[o].sub, rt_ops[o].port)
    /\ rt_ops' = [rt_ops EXCEPT ![o].pc = "finish"]
    /\ UNCHANGED <<dbVars, auxVars, disk, boot, rt_status, portTracker, processTracker, rt_procs, rt_nops, lastStop>>

\* the goroutine of TemplHandler.DeployProject after Deploy returned:
\* UPDATE projects SET status = active or failed, last_deploy_at
TemplHandler_DeployProject_finish(o) ==
    /\ rt_ops[o].kind = "deploy" /\ RTAt(o, "finish")
    /\ rt_status' = [rt_status EXCEPT ![rt_ops[o].sub] =
                        IF rt_ops[o].err THEN ProjectStatusFailed
                                         ELSE ProjectStatusActive]
    /\ rt_ops' = [rt_ops EXCEPT ![o].pc = "done"]
    /\ UNCHANGED <<dbVars, auxVars, disk, boot, routes, portTracker, processTracker, rt_procs, rt_nops, lastStop>>

\* ------------------------------------------------------------------------
\* TemplHandler.StopProject
\* ------------------------------------------------------------------------
\* getProject, then StopService(project.Subdomain)
TemplHandler_StopProject(s) ==
    /\ rt_nops < MaxRTOps
    /\ rt_nops' = rt_nops + 1
    /\ rt_ops' = [rt_ops EXCEPT ![rt_nops + 1] =
                    [NoRTOp EXCEPT !.kind = "stop", !.sub = s, !.pc = "ss_route"]]
    /\ lastStop' = lastStop \ {s}
    /\ UNCHANGED <<dbVars, auxVars, disk, boot, rt_status, routes, portTracker, processTracker, rt_procs>>

\* UPDATE projects SET status = idle; the handler answers
TemplHandler_StopProject_status(o) ==
    /\ rt_ops[o].kind = "stop" /\ RTAt(o, "status")
    /\ rt_status' = [rt_status EXCEPT ![rt_ops[o].sub] = ProjectStatusIdle]
    /\ rt_ops' = [rt_ops EXCEPT ![o].pc = "done"]
    /\ lastStop' = lastStop \cup {rt_ops[o].sub}
    /\ UNCHANGED <<dbVars, auxVars, disk, boot, routes, portTracker, processTracker, rt_procs, rt_nops>>

\* ------------------------------------------------------------------------
\* The applications: they bind PORT some time after they start, and may end
\* ------------------------------------------------------------------------
\* net.Listen in the application: the port is taken if nobody holds it,
\* otherwise the application ends with the bind error
App_listen(q) ==
    /\ q \in 1..Len(rt_procs)
    /\ rt_procs[q].alive /\ ~rt_procs[q].listening
    /\ rt_procs' = IF Listener(rt_procs[q].port) = 0
                   THEN [rt_procs EXCEPT ![q].listening = TRUE]
                   ELSE [rt_procs EXCEPT ![q].alive = FALSE]
    /\ UNCHANGED <<dbVars, auxVars, disk, boot, rt_status, routes, portTracker, processTracker, rt_ops,
                   rt_nops, lastStop>>

App_exit(q) ==
    /\ q \in 1..Len(rt_procs)
    /\ rt_procs[q].alive
    /\ rt_procs' = [rt_procs EXCEPT ![q].alive = FALSE, ![q].listening = FALSE]
    /\ UNCHANGED <<dbVars, auxVars, disk, boot, rt_status, routes, portTracker, processTracker, rt_ops,
                   rt_nops, lastStop>>

\* ------------------------------------------------------------------------
\* RestartActiveDeployments, called once by main before the server listens
\* ------------------------------------------------------------------------
updateProjectStatus_rt(s, st) == [rt_status EXCEPT ![s] = st]

\* the failure branch of the loop body: updateProjectStatus(failed);
\* failed++; continue
RestartFailed(s) ==
    /\ rt_status' = updateProjectStatus_rt(s, ProjectStatusFailed)
    /\ boot' = [boot EXCEPT !.pc = "loop", !.todo = @ \ {s}, !.cur = "",
                            !.failed = @ + 1]
    /\ UNCHANGED <<rt_ops, rt_nops, disk>>

\* the call startService(subdomain, projectPath) of the loop body begins,
\* after rebuilt++ when the artifact had to be rebuilt
RestartStart(s, rebuilt) ==
    /\ rt_nops < MaxRTOps
    /\ rt_nops' = rt_nops + 1
    /\ rt_ops' = [rt_ops EXCEPT ![rt_nops + 1] =
                    [NoRTOp EXCEPT !.kind = "boot", !.sub = s, !.pc = "ss_route"]]
    /\ boot' = [boot EXCEPT !.pc = "start", !.cur = s, !.op = rt_nops + 1,
                            !.rebuilt = @ + rebuilt]
    /\ UNCHANGED rt_status

\* SELECT ... FROM projects WHERE status = 'active'
RestartActiveDeployments_query ==
    /\ boot.pc = "init"
    /\ LET active == {s \in Subdomains : rt_status[s] = ProjectStatusActive}
       IN boot' = [boot EXCEPT !.pc = "loop", !.seen = active, !.todo = active]
    /\ UNCHANGED <<dbVars, auxVars, rt_status, routes, portTracker, processTracker, rt_procs,
                   rt_ops, rt_nops, lastStop, disk>>

\* rows.Next, rows.Scan, os.Stat(projectPath), os.Stat(appPath)
RestartActiveDeployments_next(s) ==
    /\ boot.pc = "loop" /\ s \in boot.todo
    /\ IF disk[s] = DiskMissing
       THEN RestartFailed(s)
       ELSE IF disk[s] = DiskDir
            THEN /\ boot' = [boot EXCEPT !.pc = "rebuild", !.cur = s]
                 /\ UNCHANGED <<rt_status, rt_ops, rt_nops, disk>>
            ELSE RestartStart(s, 0) /\ UNCHANGED disk
    /\ UNCHANGED <<dbVars, auxVars, routes, portTracker, processTracker, rt_procs, lastStop>>

\* buildProject(projectPath), then os.Stat(appPath) again
RebuildOutcomes == {"built", "build failed", "no binary"}

RestartActiveDeployments_rebuild(outcome) ==
    /\ boot.pc = "rebuild"
    /\ IF outcome = "built"
       THEN /\ RestartStart(boot.cur, 1)
            /\ disk' = [disk EXCEPT ![boot.cur] = DiskBuilt]
       ELSE RestartFailed(boot.cur)
    /\ UNCHANGED <<dbVars, auxVars, routes, portTracker, processTracker, rt_procs, lastStop>>

\* startService returned: an error marks the project failed, otherwise
\* restarted++
RestartActiveDeployments_started ==
    /\ boot.pc = "start" /\ RTAt(boot.op, "finish")
    /\ rt_ops' = [rt_ops EXCEPT ![boot.op].pc = "done"]
    /\ IF rt_ops[boot.op].err
       THEN /\ rt_status' = updateProjectStatus_rt(boot.cur, ProjectStatusFailed)
            /\ boot' = [boot EXCEPT !.pc = "loop", !.todo = @ \ {boot.cur},
                                    !.cur = "", !.failed = @ + 1]
       ELSE /\ boot' = [boot EXCEPT !.pc = "loop", !.todo = @ \ {boot.cur},
                                    !.cur = "", !.restarted = @ + 1]
            /\ UNCHANGED rt_status
    /\ UNCHANGED <<dbVars, auxVars, routes, portTracker, processTracker, rt_procs, rt_nops,
                   lastStop, disk>>

\* after the loop: an error when failed > 0, nil otherwise
RestartActiveDeployments_return ==
    /\ boot.pc = "loop" /\ boot.todo = {}
    /\ boot' = [boot EXCEPT !.pc = "done", !.err = (boot.failed > 0)]
    /\ UNCHANGED <<dbVars, auxVars, rt_status, routes, portTracker, processTracker, rt_procs,
                   rt_ops, rt_nops, lastStop, disk>>

\* the server's startup: the pass, its startService calls, the applications
NextBoot ==
    \/ RestartActiveDeployments_query
    \/ \E s \in Subdomains : RestartActiveDeployments_next(s)
    \/ \E outcome \in RebuildOutcomes : RestartActiveDeployments_rebuild(outcome)
    \/ \E o \in RTOpIDs : StopService_route(o)
    \/ \E o \in RTOpIDs : StopService_proc(o)
    \/ \E o \in RTOpIDs : StopService_port(o)
    \/ \E o \in RTOpIDs : StopService_kill(o)
    \/ \E o \in RTOpIDs, ok \in BOOLEAN : startService_start(o, ok)
    \/ \E o \in RTOpIDs : startService_trackPort(o)
    \/ \E o \in RTOpIDs : startService_trackProcess(o)
    \/ \E o \in RTOpIDs : startService_addRoute(o)
    \/ RestartActiveDeployments_started
    \/ RestartActiveDeployments_return
    \/ \E q \in 1..MaxRTProcs : App_listen(q)
    \/ \E q \in 1..MaxRTProcs : App_exit(q)

NextRT ==
    \/ \E s \in Subdomains : TemplHandler_DeployProject(s)
    \/ \E o \in RTOpIDs, ok \in BOOLEAN : Deploy_build(o, ok)
    \/ \E o \in RTOpIDs : StopService_route(o)
    \/ \E o \in RTOpIDs : StopService_proc(o)
    \/ \E o \in RTOpIDs : StopService_port(o)
    \/ \E o \in RTOpIDs : StopService_kill(o)
    \/ \E o \in RTOpIDs, ok \in BOOLEAN : startService_start(o, ok)
    \/ \E o \in RTOpIDs : startService_trackPort(o)
    \/ \E o \in RTOpIDs : startService_trackProcess(o)
    \/ \E o \in RTOpIDs : startService_addRoute(o)
    \/ \E o \in RTOpIDs : TemplHandler_DeployProject_finish(o)
    \/ \E s \in Subdomains : TemplHandler_StopProject(s)
    \/ \E o \in RTOpIDs : TemplHandler_StopProject_status(o)
    \/ \E q \in 1..MaxRTProcs : App_listen(q)
    \/ \E q \in 1..MaxRTProcs : App_exit(q)

\* ========================================================================
\* CreateProjectHandler
\* ========================================================================
MaxCreates == 2
CreateIDs == 1..MaxCreates

\* the characters of the class [a-z0-9]
LowerAlnum ==
    {"a", "b", "c", "d", "e", "f", "g", "h", "i", "j", "k", "l", "m", "n", "o",
     "p", "q", "r", "s", "t", "u", "v", "w", "x", "y", "z",
     "0", "1", "2", "3", "4", "5", "6", "7", "8", "9"}

MaxSubdomainLen == 63

\* strings.TrimSpace
RECURSIVE TrimSpace(_)
TrimSpace(str) ==
    IF str = <<>> THEN str
    ELSE IF Head(str) = " " THEN TrimSpace(Tail(str))
    ELSE IF str[Len(str)] = " " THEN TrimSpace(SubSeq(str, 1, Len(str) - 1))
    ELSE str

\* a validation that takes 63 characters for too many
isValidSubdomain_below63(subdomain) ==
    /\ Len(subdomain) >= 1 /\ Len(subdomain) < MaxSubdomainLen
    /\ subdomain[1] \in LowerAlnum
    /\ subdomain[Len(subdomain)] \in LowerAlnum
    /\ \A i \in 1..Len(subdomain) : subdomain[i] \in LowerAlnum \cup {"-"}

\* len in 1..63 and ^[a-z0-9]([a-z0-9-]*[a-z0-9])?$
isValidSubdomain(subdomain) ==
    /\ Len(subdomain) >= 1 /\ Len(subdomain) <= MaxSubdomainLen
    /\ subdomain[1] \in LowerAlnum
    /\ subdomain[Len(subdomain)] \in LowerAlnum
    /\ \A i \in 1..Len(subdomain) : subdomain[i] \in LowerAlnum \cup {"-"}

\* SELECT COUNT(*) FROM projects WHERE subdomain = ?
subdomainExists(subdomain) ==
    \E i \in 1..Len(project_rows) : project_rows[i].subdomain = subdomain

\* the first port from 8081 on that no row has
generateUniquePort ==
    CHOOSE port \in FirstProjectPort..(FirstProjectPort + Len(project_rows)) :
        /\ \A i \in 1..Len(project_rows) : project_rows[i].port # port
        /\ \A other \in FirstProjectPort..(port - 1) :
              \E i \in 1..Len(project_rows) : project_rows[i].port = other

\* the forms that are posted: the subdomain field as typed, one of the
\* other required fields present or empty, the numeric fields parsable or not
FormSubdomains ==
    { <<>>, <<"a">>, <<" ", "a", " ">>, <<"a", "-", "b">>, <<"-", "a">>,
      <<"A">>, <<"a", ".", "b">> }

Forms == [subdomain : FormSubdomains, name : {"", "n"}, numeric : BOOLEAN]

NoCreate == [pc |-> "idle", form |-> [subdomain |-> <<>>, name |-> "", numeric |-> FALSE],
             subdomain |-> <<>>, port |-> 0, projectID |-> 0, deployment |-> FALSE,
             res |-> ""]

InitCreate ==
    /\ project_rows = <<>>
    /\ creates = [r \in CreateIDs |-> NoCreate]

CreateAt(r, pc) == creates[r].pc = pc

Reject(r, code) == [creates EXCEPT ![r].pc = "done", ![r].res = code]

\* ParseForm, TrimSpace of the fields, the required-field check, ParseInt and
\* Atoi, isValidSubdomain
CreateProjectHandler_validate(r, form) ==
    /\ CreateAt(r, "idle")
    /\ LET subdomain == TrimSpace(form.subdomain)
           posted == [creates EXCEPT ![r].form = form, ![r].subdomain = subdomain]
       IN creates' =
            IF form.name = "" \/ subdomain = <<>> \/ ~form.numeric
               \/ ~isValidSubdomain(subdomain)
            THEN [posted EXCEPT ![r].pc = "done", ![r].res = "400"]
            ELSE [posted EXCEPT ![r].pc = "exists"]
    /\ UNCHANGED <<dbVars, rtVars, secVars, pureVars, isoVars, project_rows>>

\* h.subdomainExists(subdomain): 409 when a row has it
CreateProjectHandler_exists(r) ==
    /\ CreateAt(r, "exists")
    /\ creates' = IF subdomainExists(creates[r].subdomain)
                  THEN Reject(r, "409")
                  ELSE [creates EXCEPT ![r].pc = "port"]
    /\ UNCHANGED <<dbVars, rtVars, secVars, pureVars, isoVars, project_rows>>

\* h.generateUniquePort()
CreateProjectHandler_port(r) ==
    /\ CreateAt(r, "port")
    /\ creates' = [creates EXCEPT ![r].pc = "insert", ![r].port = generateUniquePort]
    /\ UNCHANGED <<dbVars, rtVars, secVars, pureVars, isoVars, project_rows>>

\* INSERT INTO projects: subdomain is UNIQUE, a second row with the same
\* subdomain is refused and the handler answers 500
CreateProjectHandler_insert(r) ==
    /\ CreateAt(r, "insert")
    /\ IF subdomainExists(creates[r].subdomain)
       THEN /\ creates' = Reject(r, "500")
            /\ UNCHANGED project_rows
       ELSE /\ project_rows' = Append(project_rows,
                                     [subdomain |-> creates[r].subdomain,
                                      port |-> creates[r].port])
            /\ creates' = [creates EXCEPT ![r].pc = "deploy",
                                          ![r].projectID = Len(project_rows) + 1]
    /\ UNCHANGED <<dbVars, rtVars, secVars, pureVars, isoVars>>

\* h.Deployment.DeployProject(projectID, ""), then the success response
CreateProjectHandler_deploy(r) ==
    /\ CreateAt(r, "deploy")
    /\ creates' = [creates EXCEPT ![r].pc = "done", ![r].deployment = TRUE,
                                  ![r].res = "200"]
    /\ UNCHANGED <<dbVars, rtVars, secVars, pureVars, isoVars, project_rows>>

NextCreate ==
    \/ \E r \in CreateIDs, form \in Forms : CreateProjectHandler_validate(r, form)
    \/ \E r \in CreateIDs : CreateProjectHandler_exists(r)
    \/ \E r \in CreateIDs : CreateProjectHandler_port(r)
    \/ \E r \in CreateIDs : CreateProjectHandler_insert(r)
    \/ \E r \in CreateIDs : CreateProjectHandler_deploy(r)

\* ========================================================================
\* IsolationService, and the environment of the processes that are launched
\* ========================================================================
MaxIsoCalls == 2

BaseUID == 10000
BaseGID == 10000

\* names that the deployer's own environment may hold
DeployerNames == {"ENCRYPTION_KEY", "PATH"}

\* names of the secrets of a project
SecretSets == {{}, {"API_KEY"}}

\* an environment is a set of <<name, origin>>: the origin tells where the
\* value comes from (a literal of the code, an argument of the call, a secret
\* of the project, the environment of the deployer)
FromCode == "code"
FromCall == "call"
FromSecret == "secret"
FromDeployer == "deployer"

\* os.Environ()
Environ == {<<name, FromDeployer>> : name \in isoConfig.environ}

\* IsolationService.prepareEnvironment
prepareEnvironment(secrets) ==
    { <<"PORT", FromCall>>, <<"PATH", FromCode>>, <<"HOME", FromCode>>,
      <<"USER", FromCode>>, <<"SHELL", FromCode>>, <<"PROJECT_ID", FromCall>>,
      <<"SUBDOMAIN", FromCall>> }
    \cup {<<name, FromSecret>> : name \in secrets}

\* cmd.Env of DeploymentService.startService:
\* append(os.Environ(), PORT=..., SUBDOMAIN=...)
startService_Env == Environ \cup {<<"PORT", FromCall>>, <<"SUBDOMAIN", FromCall>>}

\* cmd.Env of startApplication: append(os.Environ(), envVars...), PORT=...
startApplication_Env(envVars) ==
    Environ \cup {<<name, FromSecret>> : name \in envVars} \cup {<<"PORT", FromCall>>}

NoIsoCall == [kind |-> "none", sub |-> "", fail |-> "none", err |-> "", uid |-> 0,
              gid |-> 0, dir |-> <<>>, env |-> {}, secrets |-> {}, namespaces |-> FALSE,
              chroot |-> FALSE, jailed |-> FALSE, warned |-> FALSE, logged |-> FALSE,
              group |-> <<>>]

NoHost == [principals |-> [s \in Subdomains |-> 0],
           jail |-> [s \in Subdomains |-> {}],
           cgroup |-> [s \in Subdomains |-> FALSE]]

\* the server as it is configured by default, on Linux
InitIso ==
    /\ isoConfig = [linux |-> TRUE, enableChroot |-> FALSE, environ |-> DeployerNames]
    /\ iso_host = NoHost
    /\ iso_calls = <<>>

\* getOrCreateUser: the user found by user.Lookup, or the first free uid from
\* baseUID, the home directory, useradd, chown
getOrCreateUser(sub, fail) ==
    IF iso_host.principals[sub] # 0
    THEN [err |-> "", uid |-> iso_host.principals[sub], gid |-> BaseGID,
          principals |-> iso_host.principals]
    ELSE LET used == {iso_host.principals[s] : s \in Subdomains}
             uid == CHOOSE u \in BaseUID..(BaseUID + Cardinality(Subdomains)) :
                        /\ u \notin used
                        /\ \A v \in BaseUID..(u - 1) : v \in used
         IN CASE fail \in {"home", "useradd"} ->
                   [err |-> "failed to create user", uid |-> 0, gid |-> 0,
                    principals |-> iso_host.principals]
              [] fail = "chown" ->
                   [err |-> "failed to create user", uid |-> 0, gid |-> 0,
                    principals |-> [iso_host.principals EXCEPT ![sub] = uid]]
              [] OTHER ->
                   [err |-> "", uid |-> uid, gid |-> BaseGID,
                    principals |-> [iso_host.principals EXCEPT ![sub] = uid]]

\* createDeviceNodeLinux: unix.Mknod on Linux, which refuses a path that
\* exists; an error on the other platforms
createDeviceNodeLinux(tree, node, fail) ==
    isoConfig.linux /\ node \notin tree /\ fail # "mknod"

\* setupChroot: the directories, the copy of the binary, /dev/null, /dev/zero
setupChroot(sub, fail) ==
    LET tree == iso_host.jail[sub]
        withDirs == tree \cup {"dirs"}
        withApp == withDirs \cup {"app"}
        withNull == withApp \cup {"null"}
    IN CASE fail = "mkdir" -> [err |-> "failed to create chroot dir", jail |-> tree]
         [] fail = "copy" -> [err |-> "failed to copy app binary", jail |-> withDirs]
         [] ~createDeviceNodeLinux(withApp, "null", fail) ->
              [err |-> "failed to create /dev/null", jail |-> withApp]
         [] ~createDeviceNodeLinux(withNull, "zero", fail) ->
              [err |-> "failed to create /dev/zero", jail |-> withNull]
         [] OTHER -> [err |-> "", jail |-> withNull \cup {"zero"}]

CreateFails == {"none", "home", "useradd", "chown", "mkdir", "copy", "mknod"}

\* CreateIsolatedProcess(config)
CreateIsolatedProcess(sub, secrets, fail) ==
    /\ Len(iso_calls) < MaxIsoCalls
    /\ LET user == getOrCreateUser(sub, fail)
           jail == IF isoConfig.enableChroot /\ user.err = ""
                   THEN setupChroot(sub, fail)
                   ELSE [err |-> "", jail |-> iso_host.jail[sub]]
           call == [NoIsoCall EXCEPT !.kind = "CreateIsolatedProcess", !.sub = sub,
                                     !.fail = fail, !.secrets = secrets,
                                     !.jailed = isoConfig.enableChroot /\ user.err = ""]
       IN /\ iso_host' = [iso_host EXCEPT !.principals = user.principals,
                                  !.jail[sub] = jail.jail]
          /\ iso_calls' = Append(iso_calls,
                CASE user.err # "" -> [call EXCEPT !.err = "failed to create user"]
                  [] jail.err # "" -> [call EXCEPT !.err = "failed to setup chroot"]
                  [] OTHER ->
                       [call EXCEPT
                          !.uid = user.uid, !.gid = user.gid,
                          !.dir = IF isoConfig.enableChroot
                                  THEN <<"chrootBase", sub, "app">>
                                  ELSE <<"ProjectPath", sub>>,
                          !.env = prepareEnvironment(secrets),
                          !.namespaces = isoConfig.linux,
                          !.chroot = isoConfig.linux /\ isoConfig.enableChroot,
                          !.warned = ~isoConfig.linux /\ isoConfig.enableChroot])
    /\ UNCHANGED <<dbVars, rtVars, secVars, pureVars, crVars, isoConfig>>

LimitFails == {"none", "mkdir", "memory", "cpu", "pids", "procs"}

\* SetResourceLimits(pid, subdomain)
SetResourceLimits(sub, fail) ==
    /\ Len(iso_calls) < MaxIsoCalls
    /\ LET call == [NoIsoCall EXCEPT !.kind = "SetResourceLimits", !.sub = sub,
                                     !.fail = fail]
       IN IF fail = "mkdir"
          THEN /\ iso_calls' = Append(iso_calls,
                                     [call EXCEPT !.err = "failed to create cgroup dir"])
               /\ UNCHANGED iso_host
          ELSE /\ iso_calls' = Append(iso_calls,
                                     [call EXCEPT !.group = <<"deployer", sub>>,
                                                  !.logged = fail \in {"memory", "pids", "procs"}])
               /\ iso_host' = [iso_host EXCEPT !.cgroup[sub] = TRUE]
    /\ UNCHANGED <<dbVars, rtVars, secVars, pureVars, crVars, isoConfig>>

\* cmd.Start() of DeploymentService.startService
startService_launch(sub) ==
    /\ Len(iso_calls) < MaxIsoCalls
    /\ iso_calls' = Append(iso_calls,
                       [NoIsoCall EXCEPT !.kind = "startService", !.sub = sub,
                                         !.dir = <<"ProjectPath", sub>>,
                                         !.env = startService_Env])
    /\ UNCHANGED <<dbVars, rtVars, secVars, pureVars, crVars, isoConfig, iso_host>>

\* cmd.Start() of startApplication
startApplication_launch(sub, envVars) ==
    /\ Len(iso_calls) < MaxIsoCalls
    /\ iso_calls' = Append(iso_calls,
                       [NoIsoCall EXCEPT !.kind = "startApplication", !.sub = sub,
                                         !.secrets = envVars,
                                         !.dir = <<"DeploymentRoot", sub>>,
                                         !.env = startApplication_Env(envVars)])
    /\ UNCHANGED <<dbVars, rtVars, secVars, pureVars, crVars, isoConfig, iso_host>>

NextIso ==
    \/ \E sub \in Subdomains, secrets \in SecretSets, fail \in CreateFails :
          CreateIsolatedProcess(sub, secrets, fail)
    \/ \E sub \in Subdomains, fail \in LimitFails : SetResourceLimits(sub, fail)
    \/ \E sub \in Subdomains : startService_launch(sub)
    \/ \E sub \in Subdomains, envVars \in SecretSets : startApplication_launch(sub, envVars)

\* ========================================================================
\* SecretsService
\* ========================================================================
MaxSecrets == 2
SecretProjects == {1, 2}
KeyNames == {"API_KEY", "DB_URL"}

\* bytes are counted modulo ByteRange
ByteRange == 4
Bytes == 0..(ByteRange - 1)
Nonces == {0, 1}
EncryptionKeys == {1, 2}

\* the values that are posted: the empty one, one of 4 bytes and one of 5
SecretValues == { <<>>, <<1, 2, 3, 0>>, <<3, 1, 2, 3, 0>> }

RECURSIVE Sum(_)
Sum(bs) == IF bs = <<>> THEN 0 ELSE Head(bs) + Sum(Tail(bs))

\* gcm.NonceSize() and the size of the tag, in bytes of this cipher
NonceSize == 1
TagSize == 1

\* the authentication tag over the nonce and the encrypted bytes
Tag(key, nonce, cipherData) == (key + nonce + Sum(cipherData)) % ByteRange

\* gcm.Seal(nil, nonce, plaintext, nil): encrypted bytes and tag, no nonce
SealWithoutNonce(key, nonce, plaintext) ==
    LET cipherData == [i \in 1..Len(plaintext) |->
                          (plaintext[i] + key + nonce + i) % ByteRange]
    IN cipherData \o <<Tag(key, nonce, cipherData)>>

\* gcm.Seal(nonce, nonce, plaintext, nil): nonce, encrypted bytes, tag
Seal(key, nonce, plaintext) ==
    LET cipherData == [i \in 1..Len(plaintext) |->
                          (plaintext[i] + key + nonce + i) % ByteRange]
    IN <<nonce>> \o cipherData \o <<Tag(key, nonce, cipherData)>>

\* base64.StdEncoding: the alphabet, EncodeToString, DecodeString
Base64Alphabet == <<"A", "B", "C", "D">>

EncodeToString(data) == [i \in 1..Len(data) |-> Base64Alphabet[data[i] + 1]]

DecodeString(text) ==
    IF \A i \in 1..Len(text) : \E b \in Bytes : Base64Alphabet[b + 1] = text[i]
    THEN [err |-> "", data |-> [i \in 1..Len(text) |->
                                  CHOOSE b \in Bytes : Base64Alphabet[b + 1] = text[i]]]
    ELSE [err |-> "illegal base64 data", data |-> <<>>]

\* SecretsService.encrypt, with the nonce that rand.Reader gave
encrypt(key, nonce, plaintext) == EncodeToString(Seal(key, nonce, plaintext))

\* SecretsService.decrypt
decrypt(key, ciphertext) ==
    LET decoded == DecodeString(ciphertext)
        data == decoded.data
    IN IF decoded.err # "" THEN [err |-> decoded.err, plaintext |-> <<>>]
       ELSE IF Len(data) < NonceSize
            THEN [err |-> "malformed ciphertext", plaintext |-> <<>>]
       ELSE IF Len(data) < NonceSize + TagSize
               \/ data[Len(data)] # Tag(key, data[1], SubSeq(data, 2, Len(data) - 1))
            THEN [err |-> "message authentication failed", plaintext |-> <<>>]
       ELSE [err |-> "",
             plaintext |-> [i \in 1..(Len(data) - NonceSize - TagSize) |->
                              (data[i + 1] + 2 * ByteRange - ((key + data[1] + i) % ByteRange))
                              % ByteRange]]

\* strings.Repeat("*", n); Star is the character code of "*"
Star == 42
Repeat(c, n) == [i \in 1..n |-> c]

\* a display that shows the value as it is
Unmasked(value) == value

\* maskValue
maskValue(value) ==
    IF Len(value) <= 4
    THEN Repeat(Star, Len(value))
    ELSE Repeat(Star, Len(value) - 4) \o SubSeq(value, Len(value) - 3, Len(value))

\* the mask of a value that does not decrypt: maskValue("********")
DefaultMask == Repeat(Star, 8)

NoRet == [op |-> "none", project |-> 0, id |-> 0, key_name |-> "", value |-> <<>>,
          err |-> "", out |-> <<>>]

InitSecrets ==
    /\ sec_rows = <<>>
    /\ sec_key = 1
    /\ sec_ret = NoRet

\* A row holds the columns project_id, key_name and encrypted_value; its id is
\* its index, `present` is FALSE once it is deleted, and `posted` and
\* `sealed_with` are no columns: they remember the value and the key that the
\* row's encrypted_value was made from.
Deleted == [project_id |-> 0, key_name |-> "", encrypted_value |-> <<>>,
            present |-> FALSE, posted |-> <<>>, sealed_with |-> 0]

Rows(projectID) ==
    {i \in 1..Len(sec_rows) : sec_rows[i].present /\ sec_rows[i].project_id = projectID}

\* a table without the constraint UNIQUE(project_id, key_name)
NoConstraint(id, projectID, keyName) == FALSE

\* UNIQUE(project_id, key_name): a row other than `id` holds the pair
UniqueFails(id, projectID, keyName) ==
    \E i \in Rows(projectID) : i # id /\ sec_rows[i].key_name = keyName

\* the validation that CreateSecret and UpdateSecret begin with
InputError(keyName, value) ==
    IF keyName = "" THEN "key name is required"
    ELSE IF value = <<>> THEN "value is required"
    ELSE ""

\* NewSecretsService: the server starts with some ENCRYPTION_KEY
NewSecretsService(key) ==
    /\ sec_key' = key
    /\ sec_ret' = [NoRet EXCEPT !.op = "NewSecretsService"]
    /\ UNCHANGED <<dbVars, rtVars, crVars, isoVars, pureVars, sec_rows>>

CreateSecret(projectID, input) ==
    /\ LET keyName == input.KeyName
           value == input.Value
           call == [NoRet EXCEPT !.op = "CreateSecret", !.project = projectID,
                                 !.key_name = keyName, !.value = value]
       IN IF InputError(keyName, value) # ""
          THEN /\ sec_ret' = [call EXCEPT !.err = InputError(keyName, value)]
               /\ UNCHANGED sec_rows
          ELSE IF UniqueFails(0, projectID, keyName)
          THEN /\ sec_ret' = [call EXCEPT !.err = "already exists"]
               /\ UNCHANGED sec_rows
          ELSE /\ Len(sec_rows) < MaxSecrets
               /\ \E nonce \in Nonces :
                  sec_rows' = Append(sec_rows,
                                    [project_id |-> projectID, key_name |-> keyName,
                                     encrypted_value |-> encrypt(sec_key, nonce, value),
                                     present |-> TRUE,
                                     posted |-> value, sealed_with |-> sec_key])
               /\ sec_ret' = [call EXCEPT !.id = Len(sec_rows) + 1]
    /\ UNCHANGED <<dbVars, rtVars, crVars, isoVars, pureVars, sec_key>>

UpdateSecret(secretID, projectID, input) ==
    /\ LET keyName == input.KeyName
           value == input.Value
           call == [NoRet EXCEPT !.op = "UpdateSecret", !.project = projectID,
                                 !.id = secretID, !.key_name = keyName, !.value = value]
       IN IF InputError(keyName, value) # ""
          THEN /\ sec_ret' = [call EXCEPT !.err = InputError(keyName, value)]
               /\ UNCHANGED sec_rows
          ELSE IF secretID \notin Rows(projectID)
          THEN /\ sec_ret' = [call EXCEPT !.err = "secret not found"]
               /\ UNCHANGED sec_rows
          ELSE IF UniqueFails(secretID, projectID, keyName)
          THEN /\ sec_ret' = [call EXCEPT !.err = "already exists"]
               /\ UNCHANGED sec_rows
          ELSE /\ \E nonce \in Nonces :
                  sec_rows' = [sec_rows EXCEPT
                                 ![secretID].key_name = keyName,
                                 ![secretID].encrypted_value =
                                     encrypt(sec_key, nonce, value),
                                 ![secretID].posted = value,
                                 ![secretID].sealed_with = sec_key]
               /\ sec_ret' = call
    /\ UNCHANGED <<dbVars, rtVars, crVars, isoVars, pureVars, sec_key>>

DeleteSecret(secretID, projectID) ==
    /\ LET call == [NoRet EXCEPT !.op = "DeleteSecret", !.project = projectID,
                                 !.id = secretID]
       IN IF secretID \notin Rows(projectID)
          THEN /\ sec_ret' = [call EXCEPT !.err = "secret not found"]
               /\ UNCHANGED sec_rows
          ELSE /\ sec_rows' = [sec_rows EXCEPT ![secretID] = Deleted]
               /\ sec_ret' = call
    /\ UNCHANGED <<dbVars, rtVars, crVars, isoVars, pureVars, sec_key>>

\* the rows of the project in the order of ORDER BY key_name ASC, which is
\* the order of the ids when the keys are equal
RECURSIVE Ordered(_)
Ordered(ids) ==
    IF ids = {} THEN <<>>
    ELSE LET first == CHOOSE i \in ids :
                         \A j \in ids \ {i} :
                             \/ sec_rows[i].key_name = "API_KEY" /\ sec_rows[j].key_name = "DB_URL"
                             \/ sec_rows[i].key_name = sec_rows[j].key_name /\ i < j
         IN <<first>> \o Ordered(ids \ {first})

\* one models.SecretDisplay
SecretDisplay(i) ==
    LET decrypted == decrypt(sec_key, sec_rows[i].encrypted_value)
    IN [ID |-> i, ProjectID |-> sec_rows[i].project_id, KeyName |-> sec_rows[i].key_name,
        MaskedValue |-> IF decrypted.err # "" THEN DefaultMask
                        ELSE maskValue(decrypted.plaintext)]

GetProjectSecrets(projectID) ==
    /\ LET ids == Ordered(Rows(projectID))
       IN sec_ret' = [NoRet EXCEPT !.op = "GetProjectSecrets", !.project = projectID,
                                  !.out = [n \in 1..Len(ids) |-> SecretDisplay(ids[n])]]
    /\ UNCHANGED <<dbVars, rtVars, crVars, isoVars, pureVars, sec_rows, sec_key>>

GetSecretValue(secretID, projectID) ==
    /\ LET call == [NoRet EXCEPT !.op = "GetSecretValue", !.project = projectID,
                                 !.id = secretID]
       IN IF secretID \notin Rows(projectID)
          THEN sec_ret' = [call EXCEPT !.err = "sql: no rows in result set"]
          ELSE LET decrypted == decrypt(sec_key, sec_rows[secretID].encrypted_value)
               IN sec_ret' = [call EXCEPT !.err = decrypted.err,
                                         !.out = decrypted.plaintext]
    /\ UNCHANGED <<dbVars, rtVars, crVars, isoVars, pureVars, sec_rows, sec_key>>

\* a bulk load that gives up at the first secret that does not decrypt
GetProjectSecretsForDeployment_failing(projectID) ==
    /\ LET rows == {r \in 1..Len(sec_rows) : /\ sec_rows[r].present
                                             /\ sec_rows[r].project_id = projectID}
           failed == \E r \in rows :
                        decrypt(sec_key, sec_rows[r].encrypted_value).err # ""
       IN sec_ret' = [NoRet EXCEPT
                        !.op = "GetProjectSecretsForDeployment", !.project = projectID,
                        !.err = IF failed THEN "message authentication failed" ELSE "",
                        !.out = IF failed THEN {}
                                ELSE { <<sec_rows[r].key_name,
                                         decrypt(sec_key, sec_rows[r].encrypted_value).plaintext>> :
                                       r \in rows }]
    /\ UNCHANGED <<dbVars, rtVars, crVars, isoVars, pureVars, sec_rows, sec_key>>

\* the map of GetProjectSecretsForDeployment, as a set of <<key, value>>
GetProjectSecretsForDeployment(projectID) ==
    /\ sec_ret' = [NoRet EXCEPT
                      !.op = "GetProjectSecretsForDeployment", !.project = projectID,
                      !.out = { <<sec_rows[i].key_name,
                                  decrypt(sec_key, sec_rows[i].encrypted_value).plaintext>> :
                                i \in {r \in Rows(projectID) :
                                         decrypt(sec_key, sec_rows[r].encrypted_value).err = ""} }]
    /\ UNCHANGED <<dbVars, rtVars, crVars, isoVars, pureVars, sec_rows, sec_key>>

SecretIDs == 1..MaxSecrets

\* the models.SecretInput that are posted: every key with every value, one
\* input without a key and one without a value
SecretInputs ==
    { [KeyName |-> k, Value |-> v] : k \in KeyNames, v \in SecretValues \ {<<>>} }
    \cup { [KeyName |-> "", Value |-> <<1, 2, 3, 0>>],
           [KeyName |-> "API_KEY", Value |-> <<>>] }

NextSecrets ==
    \/ \E key \in EncryptionKeys : NewSecretsService(key)
    \/ \E p \in SecretProjects, input \in SecretInputs : CreateSecret(p, input)
    \/ \E id \in SecretIDs, p \in SecretProjects, input \in SecretInputs :
          UpdateSecret(id, p, input)
    \/ \E id \in SecretIDs, p \in SecretProjects : DeleteSecret(id, p)
    \/ \E p \in SecretProjects : GetProjectSecrets(p)
    \/ \E id \in SecretIDs, p \in SecretProjects : GetSecretValue(id, p)
    \/ \E p \in SecretProjects : GetProjectSecretsForDeployment(p)

\* ========================================================================
\* Functions of a string, applied to the arguments of a bounded set
\* ========================================================================
NoApplied == [f |-> "none", baseDomain |-> <<>>, arg |-> <<>>, res |-> <<>>]

InitPure == applied = NoApplied

\* s[1] . sep . s[2] . sep ... : strings.Join
RECURSIVE Join(_, _)
Join(strs, sep) ==
    IF Len(strs) = 0 THEN <<>>
    ELSE IF Len(strs) = 1 THEN strs[1]
    ELSE strs[1] \o sep \o Join(Tail(strs), sep)

\* the labels that host names are made of
HostLabels ==
    { <<>>, <<"a">>, Www, Localhost, <<"m", "y">> \o Localhost, <<"c", "o", "m">> }

MaxLabels == 3

\* the Host headers: 1 to MaxLabels labels, with a port or without
HostHeaders ==
    { Join(labels, <<".">>) \o port :
        labels \in UNION { [1..n -> HostLabels] : n \in 1..MaxLabels },
        port \in { <<>>, <<":", "8", "0", "8", "0">> } }

\* the values of BASE_DOMAIN: the default and a domain of two labels
BaseDomains == { BaseDomain, <<"a", ".", "c", "o", "m">> }

Apply_extractSubdomain(baseDomain, host) ==
    /\ applied' = [f |-> "extractSubdomain", baseDomain |-> baseDomain, arg |-> host,
                   res |-> extractSubdomainIn(baseDomain, host)]
    /\ UNCHANGED <<dbVars, rtVars, crVars, isoVars, secVars>>

\* the alphabet of the subdomains that are validated
SubdomainChars == {"a", "9", "-", "A", "_", "."}

\* n times the character c, with `tail` for its last characters
Filled(c, n, tail) == [i \in 1..n |-> IF i > n - Len(tail) THEN tail[i - n + Len(tail)] ELSE c]

\* the subdomains that are validated: every string of up to 3 characters,
\* and strings of 62 to 65 characters that end well or badly
SubdomainArgs ==
    UNION { [1..n -> SubdomainChars] : n \in 0..3 }
    \cup { Filled(c, n, tail) :
             c \in {"a", "-"}, n \in (MaxSubdomainLen - 1)..(MaxSubdomainLen + 2),
             tail \in { <<>>, <<"9">>, <<"-">>, <<"A", "a">>, <<"_", "a">>, <<"-", "z">> } }

Apply_isValidSubdomain(subdomain) ==
    /\ applied' = [f |-> "isValidSubdomain", baseDomain |-> <<>>, arg |-> subdomain,
                   res |-> isValidSubdomain(subdomain)]
    /\ UNCHANGED <<dbVars, rtVars, crVars, isoVars, secVars>>

NextPure ==
    \/ \E baseDomain \in BaseDomains, host \in HostHeaders :
          Apply_extractSubdomain(baseDomain, host)
    \/ \E subdomain \in SubdomainArgs : Apply_isValidSubdomain(subdomain)

\* ------------------------------------------------------------------------
\* Specifications
\* ------------------------------------------------------------------------
Init == InitDB /\ InitRT /\ InitCreate /\ InitIso /\ InitSecrets /\ InitPure

Spec == Init /\ [][Next]_vars

\* every goroutine that can run does run: the DeployProject call goes on to
\* its go statement, the pipeline takes its next step whatever the outcome
\* of the external command, and a holder of d.mutex releases it
PipelineRuns ==
    /\ \A d \in 1..MaxDeploys :
          /\ WF_vars(DeployProject_launch(d))
          /\ WF_vars(performDeployment_stop(d))
          /\ WF_vars(\E outcome \in FetchOutcomes : performDeployment_fetch(d, outcome))
          /\ WF_vars(\E outcome \in {"ok", "checkout failed", "build failed"} :
                        performDeployment_build(d, outcome))
          /\ WF_vars(\E outcome \in StartOutcomes : performDeployment_start(d, outcome))
          /\ WF_vars(performDeployment_started(d))
          /\ WF_vars(performDeployment_finish(d))

\* the calls that work on deployments, and the processes they start
NextPipeline ==
    \/ \E id \in CallerIDs, commit \in BOOLEAN : DeployProject_insert(id, commit)
    \/ \E d \in 1..MaxDeploys : DeployProject_launch(d)
    \/ \E d \in 1..MaxDeploys : performDeployment_stop(d)
    \/ \E d \in 1..MaxDeploys, outcome \in FetchOutcomes : performDeployment_fetch(d, outcome)
    \/ \E d \in 1..MaxDeploys, outcome \in {"ok", "checkout failed", "build failed"} :
          performDeployment_build(d, outcome)
    \/ \E d \in 1..MaxDeploys, outcome \in StartOutcomes : performDeployment_start(d, outcome)
    \/ \E d \in 1..MaxDeploys : performDeployment_started(d)
    \/ \E d \in 1..MaxDeploys : performDeployment_finish(d)
    \/ \E q \in 1..MaxProcs, how \in {"crash", "clean"} : ProcessExit(q, how)
    \/ \E q \in 1..MaxProcs : monitor_wait(q)
    \/ \E q \in 1..MaxProcs : monitor_delete(q)
    \/ \E q \in 1..MaxProcs : monitor_notify(q)
    \/ \E id \in CallerIDs : StopProject_stop(id)
    \/ \E o \in OpIDs : StopProject_status(o)
    \/ \E id \in CallerIDs : DeleteProject_stop(id)
    \/ \E o \in OpIDs, foreign_keys \in BOOLEAN : DeleteProject_remove(o, foreign_keys)

SpecFair == Init /\ [][NextPipeline]_vars /\ PipelineRuns

\* the route-table orchestrator starts with nothing deployed
InitFresh == Init /\ procs = <<>>

SpecRT == InitFresh /\ [][NextRT]_vars

\* a start of the server over what an earlier run left in the database and
\* on disk
InitBoot ==
    /\ InitDB /\ procs = <<>>
    /\ NewDeploymentService
    /\ rt_status \in [Subdomains -> {ProjectStatusIdle, ProjectStatusActive}]
    /\ disk \in [Subdomains -> {DiskMissing, DiskDir, DiskBuilt}]
    /\ boot = NoBoot
    /\ InitCreate
    /\ InitSecrets
    /\ InitPure
    /\ InitIso

\* project creation on a server that has deployed nothing yet
SpecCreate == InitFresh /\ [][NextCreate]_vars

\* the isolation service on either build, with chroot enabled or not, under
\* any environment of the deployer
InitAnyIso ==
    /\ InitDB /\ procs = <<>>
    /\ InitRT
    /\ InitCreate
    /\ InitSecrets
    /\ InitPure
    /\ isoConfig \in [linux : BOOLEAN, enableChroot : BOOLEAN, environ : SUBSET DeployerNames]
    /\ iso_host = NoHost
    /\ iso_calls = <<>>

SpecIso == InitAnyIso /\ [][NextIso]_vars

SpecBoot == InitBoot /\ [][NextBoot]_vars

\* the functions of a string, applied to one argument after the other
SpecPure == InitFresh /\ [][NextPure]_vars

\* the secrets of the projects, on a server that has deployed nothing yet
SpecSecrets == InitFresh /\ [][NextSecrets]_vars

\* ========================================================================
\* Properties
\* ========================================================================
\* a finished StopProject call that killed the live tracked process of a
\* project whose status was active
StoppedActive(o) ==
    /\ ops[o].kind = "stop" /\ ops[o].pc = "done"
    /\ ops[o].killed # 0
    /\ ops[o].st = ProjectStatusActive

\* C1: after StopProject has killed the tracked process and written the
\* status, the exit notification of that process's monitor goroutine does
\* not change the project status again.
C1_StopStatusIsFinal ==
    [][\A o \in OpIDs :
          (/\ ops[o].kind = "stop" /\ ops[o].pc = "done"
           /\ ops[o].killed # 0
           /\ ProcAt(ops[o].killed, "notify")
           /\ procs'[ops[o].killed].mon = "done")
          => status' = status]_vars

\* C2: in every reachable state at most one live process started by
\* startApplication exists per project (subdomain).
C2_OneLiveProcess ==
    \A p \in ProjectIDs : Cardinality(LiveProcs(p)) <= 1

\* C3: two startService calls for different subdomains never hold the same
\* port from findAvailablePort while both of their processes are live.
C3_DistinctPorts ==
    \A q1, q2 \in 1..Len(rt_procs) :
        (/\ rt_procs[q1].sub # rt_procs[q2].sub
         /\ rt_procs[q1].alive /\ rt_procs[q2].alive)
        => rt_procs[q1].port # rt_procs[q2].port

\* C4: when Deploy fails at any step (no other call on the subdomain being
\* in progress), the project ends failed and no route and no running process
\* of the subdomain remains, a route or process of an earlier successful
\* deployment included.
C4_FailureLeavesNothing ==
    [][\A o \in RTOpIDs :
          (/\ rt_ops[o].kind = "deploy" /\ RTAt(o, "finish") /\ rt_ops[o].err
           /\ rt_ops'[o].pc = "done"
           /\ \A t \in RTOpIDs \ {o} :
                 rt_ops[t].sub = rt_ops[o].sub => rt_ops[t].pc = "done")
          => /\ rt_status'[rt_ops[o].sub] = ProjectStatusFailed
             /\ routes'[rt_ops[o].sub] = 0
             /\ \A q \in 1..Len(rt_procs') :
                   rt_procs'[q].sub = rt_ops[o].sub => ~rt_procs'[q].alive]_vars

\* the pipelines of a project that were launched and have not finished
InFlight(p) ==
    {d \in 1..Len(pipe) : pipe[d].project = p /\ pipe[d].pc \notin {"new", "done"}}

\* C5: at most one build pipeline is in flight per project at any time.
C5_OnePipeline ==
    \A p \in ProjectIDs : Cardinality(InFlight(p)) <= 1

\* the latest pipeline of project p completed every step, its process is
\* alive, no pipeline is running and StopProject or DeleteProject were
\* never called
Completed(p) ==
    /\ Len(pipe) > 0
    /\ pipe[Len(pipe)].project = p
    /\ pipe[Len(pipe)].err = ""
    /\ \A d \in 1..Len(pipe) : pipe[d].pc = "done"
    /\ procs[pipe[Len(pipe)].proc].alive
    /\ \A o \in OpIDs : ops[o].kind \in {"none", "serve"}

\* C6: a pipeline that completed every step leaves the project active, its
\* deployment success with the log of every step and last_deploy written;
\* from then on ServeHTTP takes a request for the subdomain to the forwarding
\* step (no 503, no restart), and what it forwards goes to the port the
\* pipeline's process was started with.
C6_PipelineSuccess ==
    [][/\ \A d \in 1..Len(pipe) :
            (/\ PipeAt(d, "finish") /\ pipe[d].err = ""
             /\ pipe'[d].pc = "done"
             /\ pipe[d].project \in projects)
            => /\ status'[pipe[d].project] = ProjectStatusActive
               /\ deployments'[d].status = StatusSuccess
               /\ deployments'[d].build_log = SuccessLog
               /\ deployments'[d].error_msg = ""
               /\ last_deploy'[pipe[d].project] = last_deploy[pipe[d].project] + 1
       /\ \A o \in OpIDs :
            (/\ ops[o].kind = "none" /\ ops'[o].kind = "serve"
             /\ ops'[o].id \in projects
             /\ Completed(ops'[o].id))
            => ops'[o].pc = "check"
       /\ \A o \in OpIDs :
            (ServeAt(o, "check") /\ ops'[o].pc # "check" /\ Completed(ops[o].id))
            => ops'[o].pc = "proxy"
       /\ \A o \in OpIDs :
            (ServeAt(o, "proxy") /\ ops'[o].pc = "done" /\ Completed(ops[o].id))
            => /\ ops'[o].port = procs[pipe[Len(pipe)].proc].port
               /\ ops'[o].res = "forwarded"]_vars

C8_StateMachine ==
    [][\A p \in ProjectIDs :
          status'[p] # status[p]
          => \/ \E o \in OpIDs :
                   ServeAt(o, "r_status") /\ ops'[o].pc # "r_status" /\ ops[o].id = p
             \/ /\ status'[p] = ProjectStatusBuilding
                /\ \E d \in 1..Len(pipe) :
                      PipeAt(d, "new") /\ pipe'[d].pc = "stop" /\ pipe[d].project = p
             \/ /\ status[p] = ProjectStatusBuilding
                /\ status'[p] \in {ProjectStatusActive, ProjectStatusFailed}
             \/ /\ status[p] = ProjectStatusActive
                /\ status'[p] = ProjectStatusInactive
                /\ \E o \in OpIDs :
                      /\ ops[o].kind = "stop" /\ ops[o].pc = "status"
                      /\ ops'[o].pc = "done" /\ ops[o].id = p
             \/ /\ status[p] = ProjectStatusActive
                /\ status'[p] = ProjectStatusFailed
                /\ \E q \in 1..Len(procs) :
                      /\ ProcAt(q, "notify") /\ procs'[q].mon = "done"
                      /\ procs[q].project = p
                      /\ procs[q].exit # "killed"]_vars

\* C9: once TemplHandler.StopProject has finished and no other call on the
\* subdomain is in progress, the subdomain has no route, no processTracker
\* entry and no portTracker entry, and the project is idle.
C9_StopLeavesNothing ==
    \A s \in lastStop :
        (\A o \in RTOpIDs : rt_ops[o].sub = s => rt_ops[o].pc = "done")
        => /\ routes[s] = 0
           /\ processTracker[s] = 0
           /\ portTracker[s] = 0
           /\ rt_status[s] = ProjectStatusIdle

\* C10: once StopProject has killed the process of an active project and
\* returned, ServeHTTP does not forward a request to the project's port
\* while no process of the project is running.
C10_NoForwardToStoppedPort ==
    [][\A o \in OpIDs :
          (/\ ServeAt(o, "proxy") /\ ops'[o].pc = "done"
           /\ \E t \in OpIDs : StoppedActive(t) /\ ops[t].id = ops[o].id)
          => LiveProcs(ops[o].id) # {}]_vars

\* C11: when StopProject or DeleteProject returns, the forwarding handler
\* cached for the project's subdomain has been removed from
\* ProxyService.proxies.
C11_ProxyInvalidated ==
    [][\A o \in OpIDs :
          (\/ /\ ops[o].kind = "stop" /\ ops[o].pc = "status"
              /\ ops'[o].pc = "done"
           \/ /\ ops[o].kind = "delete" /\ ops[o].pc = "remove"
              /\ ops'[o].pc = "done")
          => proxies'[ops[o].id] = 0]_vars

\* C12: ServeHTTP answers 400 when the host gives no subdomain, www or the
\* base domain, and 404 when no project has the subdomain; for a project in
\* any status other than active it enters RestartProject, and it answers 503
\* only after such a restart attempt.
C12_ServeHTTPErrors ==
    [][\A o \in OpIDs :
          /\ (ops[o].kind = "none" /\ ops'[o].kind = "serve")
             => /\ ops'[o].id = 0
                   => ops'[o].pc = "done" /\ ops'[o].res = "400"
                /\ (ops'[o].id # 0 /\ ops'[o].id \notin projects)
                   => ops'[o].pc = "done" /\ ops'[o].res = "404"
                /\ (ops'[o].id \in projects
                    /\ status[ops'[o].id] # ProjectStatusActive)
                   => ops'[o].pc = "r_stop"
          /\ (ops'[o].kind = "serve" /\ ops'[o].pc = "done"
              /\ ops[o].pc # "done" /\ ops'[o].res = "503")
             => ServeAt(o, "r_stop") \/ ServeAt(o, "r_status")]_vars

DeleteSettled(o) ==
    /\ ops[o].kind = "delete" /\ ops[o].pc = "done" /\ ops[o].res = "ok"
    /\ \A d \in 1..Len(pipe) : pipe[d].project = ops[o].id => pipe[d].pc = "done"
    /\ \A x \in OpIDs : ops[x].kind \in {"none", "delete", "deploy"}

\* C14: every Deployment row references an existing Project; and when a
\* DeleteProject call has returned and every pipeline of the deleted project
\* has finished, no Deployment row of the project, no running process of it
\* and no workspace of it remains
C14_DeleteCascades ==
    /\ \A d \in 1..Len(deployments) :
          deployments[d].present => deployments[d].project_id \in projects
    /\ \A o \in OpIDs :
          DeleteSettled(o)
          => /\ \A d \in 1..Len(deployments) :
                   deployments[d].project_id = ops[o].id => ~deployments[d].present
             /\ LiveProcs(ops[o].id) = {}
             /\ ~workspace[ops[o].id]

C16_CreateRejects ==
    /\ [](\A i, j \in 1..Len(project_rows) :
            project_rows[i].subdomain = project_rows[j].subdomain => i = j)
    /\ [][\A r \in CreateIDs :
             (creates[r].pc # "done" /\ creates'[r].pc = "done")
             => LET form == creates'[r].form
                    subdomain == TrimSpace(form.subdomain)
                    malformed == \/ form.name = "" \/ ~form.numeric
                                 \/ subdomain = <<>> \/ ~isValidSubdomain(subdomain)
                    taken == \E i \in 1..Len(project_rows) :
                                /\ project_rows[i].subdomain = subdomain
                                /\ i # creates[r].projectID
                    nothingDone == /\ project_rows' = project_rows
                                   /\ creates'[r].projectID = 0
                                   /\ ~creates'[r].deployment
                IN /\ malformed => creates'[r].res = "400" /\ nothingDone
                   /\ (~malformed /\ taken) => creates'[r].res = "409" /\ nothingDone]_vars

\* the names the environment of a launched process may hold
AllowedNames == {"PATH", "HOME", "USER", "PORT", "PROJECT_ID", "SUBDOMAIN"}

\* C17: the environment of every process launched for a deployment holds
\* only PATH, HOME, USER, PORT, PROJECT_ID, SUBDOMAIN and the secrets of the
\* project, and nothing of it comes from the deployer's environment
C17_MinimalEnvironment ==
    \A c \in 1..Len(iso_calls) :
        iso_calls[c].kind \in {"startService", "startApplication"}
        => \A entry \in iso_calls[c].env :
              /\ entry[2] # FromDeployer
              /\ entry[1] \in AllowedNames \cup iso_calls[c].secrets

\* the call that a step has added to iso_calls
Returned(kind) ==
    /\ Len(iso_calls') = Len(iso_calls) + 1
    /\ iso_calls'[Len(iso_calls')].kind = kind

\* C18: a CreateIsolatedProcess call whose user could not be created returns
\* an error; with chroot disabled it runs no chroot step, and with chroot
\* enabled a chroot step that fails makes it return an error; a
\* SetResourceLimits call in which a step fails returns no error and logs
\* the failure
C18_IsolationErrors ==
    [][LET call == iso_calls'[Len(iso_calls')]
       IN /\ Returned("CreateIsolatedProcess")
             => /\ getOrCreateUser(call.sub, call.fail).err # "" => call.err # ""
                /\ ~isoConfig.enableChroot
                   => /\ ~call.jailed
                      /\ iso_host'.jail = iso_host.jail
                      /\ call.err # "failed to setup chroot"
                /\ (/\ isoConfig.enableChroot
                    /\ getOrCreateUser(call.sub, call.fail).err = ""
                    /\ setupChroot(call.sub, call.fail).err # "")
                   => call.err # ""
          /\ (Returned("SetResourceLimits") /\ call.fail # "none")
             => call.err = "" /\ call.logged]_vars

\* C19: when a CreateIsolatedProcess or SetResourceLimits call succeeded and
\* a later call of the same kind for the same subdomain meets no failure of
\* the host, the later call succeeds and returns the same uid and gid, the
\* same directory and the same resource group
C19_Idempotent ==
    \A i, j \in 1..Len(iso_calls) :
        (/\ i < j
         /\ iso_calls[i].kind \in {"CreateIsolatedProcess", "SetResourceLimits"}
         /\ iso_calls[j].kind = iso_calls[i].kind
         /\ iso_calls[j].sub = iso_calls[i].sub
         /\ iso_calls[i].err = ""
         /\ iso_calls[j].fail = "none")
        => /\ iso_calls[j].err = ""
           /\ iso_calls[j].uid = iso_calls[i].uid
           /\ iso_calls[j].gid = iso_calls[i].gid
           /\ iso_calls[j].dir = iso_calls[i].dir
           /\ iso_calls[j].group = iso_calls[i].group

\* C20: on the build without namespaces and chroot, a CreateIsolatedProcess
\* call that meets no failure of the host succeeds whether chroot is enabled
\* or not, with the uid and gid of the deployment and neither namespaces nor
\* chroot, and prints the warning that isolation is reduced
C20_ReducedIsolation ==
    \A c \in 1..Len(iso_calls) :
        (/\ ~isoConfig.linux
         /\ iso_calls[c].kind = "CreateIsolatedProcess"
         /\ iso_calls[c].fail = "none")
        => /\ iso_calls[c].err = ""
           /\ iso_calls[c].uid # 0
           /\ ~iso_calls[c].namespaces /\ ~iso_calls[c].chroot
           /\ iso_calls[c].warned

\* ------------------------------------------------------------------------
\* SecretsService
\* ------------------------------------------------------------------------
\* the rows that hold (project, key) in this state
Holding(projectID, keyName) ==
    {i \in 1..Len(sec_rows) : /\ sec_rows[i].present
                              /\ sec_rows[i].project_id = projectID
                              /\ sec_rows[i].key_name = keyName}

Decrypting(projectID) ==
    {i \in 1..Len(sec_rows) :
        /\ sec_rows[i].present
        /\ sec_rows[i].project_id = projectID
        /\ decrypt(sec_key, sec_rows[i].encrypted_value).err = ""}

\* C22: GetProjectSecretsForDeployment returns no error and a map that holds
\* exactly the secrets of the project that decrypt, each with the value that
\* was stored; a secret that does not decrypt is left out, and
\* GetSecretValue for such a secret returns the error of the decryption.
C22_BulkLoadSkips ==
    /\ sec_ret.op = "GetProjectSecretsForDeployment"
       => /\ sec_ret.err = ""
          /\ sec_ret.out = { <<sec_rows[i].key_name, sec_rows[i].posted>> :
                               i \in Decrypting(sec_ret.project) }
    /\ /\ sec_ret.op = "GetSecretValue"
       /\ sec_ret.id \in 1..Len(sec_rows)
       /\ sec_rows[sec_ret.id].present
       /\ sec_rows[sec_ret.id].project_id = sec_ret.project
       /\ sec_ret.id \notin Decrypting(sec_ret.project)
       => /\ sec_ret.err # ""
          /\ sec_ret.err = decrypt(sec_key, sec_rows[sec_ret.id].encrypted_value).err

\* a bulk load has returned one secret of a project and left the other out
C22_Witness ==
    /\ sec_ret.op = "GetProjectSecretsForDeployment"
    /\ Cardinality(sec_ret.out) = 1
    /\ Cardinality({i \in 1..Len(sec_rows) :
                       sec_rows[i].present /\ sec_rows[i].project_id = sec_ret.project}) = 2

\* values of every length from 0 to 6
MaskedLengths == 0..6
MaskedValues == { SubSeq(<<2, 0, 1, 2, 3, 0>>, 1, n) : n \in MaskedLengths }

\* `mask` is `value` with asterisks for all but the last 4 characters of a
\* value longer than 4, and asterisks only for a value of at most 4
IsMaskOf(mask, value) ==
    /\ Len(mask) = Len(value)
    /\ \A i \in 1..Len(value) :
          mask[i] = IF Len(value) > 4 /\ i > Len(value) - 4 THEN value[i] ELSE Star

\* C25: maskValue returns len(v) asterisks for a value of at most 4 characters
\* and len(v)-4 asterisks followed by the last 4 characters for a longer one;
\* GetProjectSecrets lists every secret of the project with no other field of
\* its value than MaskedValue, which is this mask of the stored value when
\* the secret decrypts and eight asterisks when it does not.
C25_MaskedValues ==
    /\ \A v \in MaskedValues : IsMaskOf(maskValue(v), v)
    /\ sec_ret.op = "GetProjectSecrets"
       => /\ { sec_ret.out[n].ID : n \in 1..Len(sec_ret.out) } =
                { i \in 1..Len(sec_rows) : /\ sec_rows[i].present
                                           /\ sec_rows[i].project_id = sec_ret.project }
          /\ \A n \in 1..Len(sec_ret.out) :
                LET shown == sec_ret.out[n]
                    row == sec_rows[shown.ID]
                IN /\ DOMAIN shown = {"ID", "ProjectID", "KeyName", "MaskedValue"}
                   /\ shown.KeyName = row.key_name
                   /\ IF shown.ID \in Decrypting(sec_ret.project)
                      THEN IsMaskOf(shown.MaskedValue, row.posted)
                      ELSE shown.MaskedValue = Repeat(Star, 8)

\* a listing shows a value of 5 characters and a secret that does not decrypt
C25_Witness ==
    /\ sec_ret.op = "GetProjectSecrets"
    /\ Len(sec_ret.out) = 2
    /\ \E n \in 1..2 : /\ sec_ret.out[n].ID \in Decrypting(sec_ret.project)
                        /\ Len(sec_rows[sec_ret.out[n].ID].posted) = 5
    /\ \E n \in 1..2 : sec_ret.out[n].ID \notin Decrypting(sec_ret.project)

\* C26: for every plaintext p, decrypt(encrypt(p)) returns p while the key is
\* the same; GetSecretValue for a secret of the project that CreateSecret or
\* UpdateSecret stored under the key the service holds returns no error and
\* exactly the value that was stored.
C26_RoundTrip ==
    /\ \A key \in EncryptionKeys, nonce \in Nonces, p \in MaskedValues :
          decrypt(key, encrypt(key, nonce, p)) = [err |-> "", plaintext |-> p]
    /\ /\ sec_ret.op = "GetSecretValue"
       /\ sec_ret.id \in 1..Len(sec_rows)
       /\ sec_rows[sec_ret.id].present
       /\ sec_rows[sec_ret.id].project_id = sec_ret.project
       /\ sec_rows[sec_ret.id].sealed_with = sec_key
       => /\ sec_ret.err = ""
          /\ sec_ret.out = sec_rows[sec_ret.id].posted

\* GetSecretValue has returned the 5 characters of a secret stored under the
\* key that the service holds, after a restart under the other key and back
C26_Witness ==
    /\ sec_ret.op = "GetSecretValue"
    /\ sec_ret.err = ""
    /\ Len(sec_ret.out) = 5
    /\ Len(sec_rows) = 2
    /\ sec_rows[1].present /\ sec_rows[2].present
    /\ sec_rows[1].sealed_with # sec_rows[2].sealed_with

\* ------------------------------------------------------------------------
\* Functions of a string
\* ------------------------------------------------------------------------
\* the number of times the character is in the string
RECURSIVE Count(_, _)
Count(str, c) ==
    IF str = <<>> THEN 0
    ELSE (IF Head(str) = c THEN 1 ELSE 0) + Count(Tail(str), c)

\* the string up to its first c, all of it when it has none
RECURSIVE Before(_, _)
Before(str, c) ==
    IF str = <<>> \/ Head(str) = c THEN <<>>
    ELSE <<Head(str)>> \o Before(Tail(str), c)

\* C23: for every host string, extractSubdomain takes the host without its
\* port suffix and returns its first dot-separated label when the host has
\* more labels than the configured base domain, or is a localhost host (one
\* with "localhost" in its name) of at least two labels, and the empty string
\* otherwise.
C23_ExtractSubdomain ==
    applied.f = "extractSubdomain"
    => LET name == Before(applied.arg, ":")
           labels == Count(name, ".") + 1
           baseLabels == Count(applied.baseDomain, ".") + 1
           local == \E i \in 1..Len(name) :
                       /\ i + Len(Localhost) - 1 <= Len(name)
                       /\ \A j \in 1..Len(Localhost) : name[i + j - 1] = Localhost[j]
       IN applied.res = IF labels > baseLabels \/ (local /\ labels >= 2)
                        THEN Before(name, ".")
                        ELSE <<>>

\* extractSubdomain has returned the label of a host with a port under a base
\* domain of two labels
C23_Witness ==
    /\ applied.f = "extractSubdomain"
    /\ applied.baseDomain # BaseDomain
    /\ applied.arg = <<"m", "y">> \o Localhost \o <<".", "a", ".", "c", "o", "m",
                                                      ":", "8", "0", "8", "0">>
    /\ applied.res = <<"m", "y">> \o Localhost

UpperCase ==
    {"A", "B", "C", "D", "E", "F", "G", "H", "I", "J", "K", "L", "M", "N", "O",
     "P", "Q", "R", "S", "T", "U", "V", "W", "X", "Y", "Z"}

\* the states of a matcher of [a-z0-9]([a-z0-9-]*[a-z0-9])? after the string:
\* "start", "alnum" (accepting), "hyphen", "dead"
RECURSIVE Matcher(_, _)
Matcher(state, str) ==
    IF str = <<>> THEN state
    ELSE LET c == Head(str)
             next == IF state = "dead" THEN "dead"
                     ELSE IF c \in LowerAlnum THEN "alnum"
                     ELSE IF c = "-" /\ state # "start" THEN "hyphen"
                     ELSE "dead"
         IN Matcher(next, Tail(str))

\* C24: isValidSubdomain accepts every string of 1 to 63 characters that
\* matches [a-z0-9]([a-z0-9-]*[a-z0-9])? and rejects every string that has an
\* uppercase letter or an underscore or whose length is 0 or above 63.
C24_IsValidSubdomain ==
    applied.f = "isValidSubdomain"
    => LET str == applied.arg
       IN /\ Len(str) >= 1 /\ Len(str) <= 63 /\ Matcher("start", str) = "alnum"
             => applied.res = TRUE
          /\ \/ \E i \in 1..Len(str) : str[i] \in UpperCase \cup {"_"}
             \/ Len(str) = 0
             \/ Len(str) > 63
             => applied.res = FALSE

\* isValidSubdomain has accepted a string of 63 characters
C24_Witness ==
    /\ applied.f = "isValidSubdomain"
    /\ Len(applied.arg) = 63
    /\ applied.res = TRUE

\* ------------------------------------------------------------------------
\* The route-table orchestrator: independence and agreement of its tables
\* ------------------------------------------------------------------------
\* the positions of a call inside StopService and inside startService
InStopService == {"ss_route", "ss_proc", "ss_port", "ss_kill"}
InStartService == InStopService \cup {"start", "track_port", "track_proc", "add_route"}

C28_MonitorRemovesOwnEntry ==
    [][ \A q \in 1..Len(procs) :
          LET id == procs[q].project
          IN /\ procs[q].mon = "lock" /\ procs'[q].mon = "notify"
             /\ processes[id] # 0 /\ processes[id] # q
             /\ procs[processes[id]].alive
             => /\ processes'[id] = processes[id]
                /\ IsProjectRunning(id)' ]_vars

\* the pipelines of the project have returned, the monitor of each of its
\* processes that ended has written its status, and no other call has been made
PipelineAndMonitorsFinished(id) ==
    /\ \A d \in 1..Len(pipe) : pipe[d].project = id => pipe[d].pc = "done"
    /\ \A q \in 1..Len(procs) :
          procs[q].project = id => procs[q].alive \/ procs[q].mon = "done"
    /\ \A o \in OpIDs : ops[o].kind \in {"none", "deploy"}

\* C29: once the pipelines and the exit monitors of a project have finished,
\* the persisted status of the project is active only if the process table
\* holds a live process for it: the status of the pipeline's end does not
\* replace the failed or inactive status written for the exit of the
\* process that the pipeline started.
C29_ActiveMeansRunning ==
    \A id \in projects :
        PipelineAndMonitorsFinished(id) /\ status[id] = ProjectStatusActive
        => /\ processes[id] # 0
           /\ procs[processes[id]].alive

\* GetActiveDeployments: the subdomains of portTracker
GetActiveDeployments == {s \in Subdomains : portTracker[s] # 0}

\* C30: whenever no startService or StopService call is in progress, the port
\* table, the process table and the routing table hold the same set of
\* subdomains, so that GetActiveDeployments (and StopAllDeployments, which
\* stops what it returns) covers every subdomain that has a route.
C30_TablesAgree ==
    (\A o \in RTOpIDs : rt_ops[o].pc \notin InStartService)
    => /\ GetActiveDeployments = {s \in Subdomains : processTracker[s] # 0}
       /\ GetActiveDeployments = {s \in Subdomains : routes[s] # 0}

====
